---- MODULE Spec2Model ----
(***************************************************************************)
(* A model of the role-mining engine of spcon/roleminer.py.                *)
(*                                                                         *)
(*   - PolicyDeriver: DeriveRolePermissionPolicy /                         *)
(*     createInformationSecurityPolicy / getWritefuncs  (SpecPolicy,       *)
(*     SpecMissing)                                                        *)
(*   - HierarchyReducer: buildRoleHierarchy / dfsReduceRecursive /         *)
(*     ReduceMain on the concepts of a permission matrix  (SpecReduce)     *)
(*   - Chromosome canonicalization of eval_func  (SpecCanon)               *)
(*                                                                         *)
(* Python lists are 0-based; the sequences below are 1-based, so index i   *)
(* of the source is index i+1 here.                                        *)
(***************************************************************************)
EXTENDS Integers, Sequences, FiniteSets, TLC

VARIABLES
    \* ---- PolicyDeriver (roleminer.py 539-607) ----
    mined_roles,      \* list of final roles, each [users, funcs]
    reads,            \* function -> variables read in conditional positions
    reads2,           \* function -> all variables read
    writes,           \* function -> variables written
    dataW,            \* per-role write sets before the deduplication pass
    newDataW,         \* per-role write sets after the deduplication pass
    securityLattice,  \* n x n matrix over {-1, 0, 1}
    emitted,          \* pair <<i, j>> -> tuples added in iteration (i, j)
    securityPolicies, \* the returned set of policies
    pcPolicy,         \* position in createInformationSecurityPolicy
    \* ---- HierarchyReducer (roleminer.py 139-221, 250-251) ----
    permissionMatrix,     \* user id -> set of permitted functions (row of P)
    verybasic_usergroups, \* the concepts of P, [users, funcs], in lattice order
    roles,                \* the list ReduceMain reduces in place
    hierarchyMatrix,      \* <<i, j>> -> 1 iff users of i are a subset of users of j
    removes,              \* indices marked for removal, in order of marking
    loopIndex,            \* i of the loop at roleminer.py 209
    basicRoles,           \* the list ReduceMain returns
    pcReduce,             \* position in ReduceMain
    \* ---- eval_func (roleminer.py 440-451, 476-480) ----
    offered,          \* individual -> the genes it had when first evaluated
    genomes,          \* individual -> its genes now
    evaluated,        \* the individuals eval_func has been applied to
    evalCache,        \* the tuples cached_eval_func has been called with
    \* ---- fitness (roleminer.py 286-309, 336-438) ----
    freqMatrix,       \* user id -> function -> summed call count (F)
    scores,           \* individual -> [simErr, genErr] of its last evaluation
    \* ---- mining run (roleminer.py 223-251, 312-335, 453-535) ----
    userMap,          \* user id -> lowercased caller address
    bestindividual,   \* ga.bestIndividual(), a chromosome of real genes
    gaRoles,          \* self.roles, each [users (ids), funcs]
    pcMining,         \* position in GA_RM.__init__ / process
    \* ---- history loading (roleminer.py 85-131) ----
    usercall_statistics, \* the records of all_txs.json, in file order
    callIndex,        \* the record the loop at roleminer.py 113 is at
    hashMap,          \* lowercased caller address -> user id
    functions,        \* the observed functions
    UF,               \* the retained (user id, function, count) triples
    pcLoad,           \* position in lightweightrolemining
    \* ---- GA run (roleminer.py 479-515) ----
    generation,       \* self.generation, the configured number of generations
    gaState,          \* state of the optimizer
    currentGeneration, \* the generation counter of the optimizer
    workerCache       \* worker -> (tuple -> value) of its cached_eval_func

policyVars == <<mined_roles, reads, reads2, writes, dataW, newDataW,
                securityLattice, emitted, securityPolicies, pcPolicy>>

reduceVars == <<permissionMatrix, verybasic_usergroups, roles,
                hierarchyMatrix, removes, loopIndex, basicRoles, pcReduce>>

canonVars == <<offered, genomes, evaluated, evalCache>>

fitnessVars == <<freqMatrix, scores>>

miningVars == <<userMap, bestindividual, gaRoles, pcMining>>

historyVars == <<usercall_statistics, callIndex, hashMap, functions, UF,
                 pcLoad>>

gaVars == <<generation, gaState, currentGeneration, workerCache>>

vars == <<policyVars, reduceVars, canonVars, fitnessVars, miningVars,
          historyVars, gaVars>>

\* what the steps of one component leave alone
otherThanPolicy == <<reduceVars, canonVars, fitnessVars, miningVars,
                    historyVars, gaVars>>

otherThanReduce == <<policyVars, canonVars, fitnessVars, miningVars,
                    historyVars, gaVars>>

otherThanCanon == <<policyVars, reduceVars, fitnessVars, miningVars,
                    historyVars, gaVars>>

(***************************************************************************)
(* Bounds and universes.                                                   *)
(***************************************************************************)
NumVars == 3

NumUsers == 3

ChromLen == 2

MaxRecords == 2

MaxRoles == 3

MaxGenerations == 2

VarName == <<"x", "y", "z", "v", "w">>

Vars == {VarName[k] : k \in 1..NumVars}

Funcs == {"f1", "f2", "f3"}

\* The value of a mapping that was not supplied (Python None): a value that is
\* no summary, since "None" is no function name.
None == [k \in {"None"} |-> {}]

(***************************************************************************)
(* The values of a component that a specification does not run.            *)
(***************************************************************************)
PolicyIdle ==
    /\ dataW = <<>>
    /\ newDataW = <<>>
    /\ securityLattice = <<>>
    /\ emitted = <<>>
    /\ securityPolicies = {}

ReduceIdle ==
    /\ permissionMatrix = <<>>
    /\ verybasic_usergroups = <<>>
    /\ roles = <<>>
    /\ hierarchyMatrix = <<>>
    /\ removes = <<>>
    /\ loopIndex = 0
    /\ basicRoles = <<>>
    /\ pcReduce = "idle"

CanonIdle ==
    /\ offered = <<>>
    /\ genomes = <<>>
    /\ evaluated = {}
    /\ evalCache = {}

FitnessIdle ==
    /\ freqMatrix = <<>>
    /\ scores = <<>>

MiningIdle ==
    /\ userMap = <<>>
    /\ bestindividual = <<>>
    /\ gaRoles = <<>>
    /\ pcMining = "idle"

HistoryIdle ==
    /\ usercall_statistics = <<>>
    /\ callIndex = 0
    /\ hashMap = <<>>
    /\ functions = {}
    /\ UF = <<>>
    /\ pcLoad = "idle"

GAIdle ==
    /\ generation = 0
    /\ gaState = "idle"
    /\ currentGeneration = 0
    /\ workerCache = <<>>

(***************************************************************************)
(* PolicyDeriver: pure helpers.                                            *)
(***************************************************************************)

\* set(itertools.chain.from_iterable(xs)) for a sequence of sets
ChainSeq(xs) == UNION {xs[k] : k \in 1..Len(xs)}

\* roleminer.py 562: filtered by `func in writes` only; reads[func] is looked
\* up unguarded.
RoleWrites(rd, wr, role) ==
    UNION {wr[f] \ rd[f] : f \in role.funcs \cap DOMAIN wr}

\* roleminer.py 562 raises KeyError when a role function is a key of writes
\* and not of reads.
RWKeyError(rl, rd, wr) ==
    \E i \in 1..Len(rl) :
        \E f \in rl[i].funcs \cap DOMAIN wr : f \notin DOMAIN rd

ComputeDataW(rl, rd, wr) ==
    [i \in 1..Len(rl) |-> RoleWrites(rd, wr, rl[i])]

\* The pass without the subtraction of the sets to the right.
DedupLeftOnly(W) ==
    [i \in 1..Len(W) |-> W[i] \ ChainSeq(SubSeq(W, 1, i - 1))]

\* The pass with left and right exchanged.
DedupRightNotLeft(W) ==
    [i \in 1..Len(W) |->
        W[i] \ (ChainSeq(SubSeq(W, i + 1, Len(W)))
                    \ ChainSeq(SubSeq(W, 1, i - 1)))]

\* roleminer.py 568-573: every right-hand side reads the snapshot W.
DedupSnapshot(W) ==
    [i \in 1..Len(W) |->
        W[i] \ (ChainSeq(SubSeq(W, 1, i - 1))
                    \ ChainSeq(SubSeq(W, i + 1, Len(W))))]

\* roleminer.py 578-583: the two entries written for the pair i < j,
\* <<L[i][j], L[j][i]>>.  The elif tests dataW[i] against itself, so only
\* the length comparison decides it.
PairMutantBothHigh(W, i, j) ==
    IF W[i] \subseteq W[j] /\ Cardinality(W[i]) < Cardinality(W[j])
    THEN <<1, 1>>
    ELSE IF W[i] \subseteq W[i] /\ Cardinality(W[j]) < Cardinality(W[i])
    THEN <<1, 1>>
    ELSE <<0, 0>>

PairMutantSwapped(W, i, j) ==
    IF W[i] \subseteq W[j] /\ Cardinality(W[i]) < Cardinality(W[j])
    THEN <<1, -1>>
    ELSE IF W[i] \subseteq W[i] /\ Cardinality(W[j]) < Cardinality(W[i])
    THEN <<-1, 1>>
    ELSE <<0, 0>>

LatticePair(W, i, j) ==
    IF W[i] \subseteq W[j] /\ Cardinality(W[i]) < Cardinality(W[j])
    THEN <<-1, 1>>
    ELSE IF W[i] \subseteq W[i] /\ Cardinality(W[j]) < Cardinality(W[i])
    THEN <<1, -1>>
    ELSE <<0, 0>>

\* roleminer.py 575-583: np.zeros((n, n)) then the loop over i < j.
BuildLatticeOf(W) ==
    [p \in (1..Len(W)) \X (1..Len(W)) |->
        IF p[1] < p[2] THEN LatticePair(W, p[1], p[2])[1]
        ELSE IF p[2] < p[1] THEN LatticePair(W, p[2], p[1])[2]
        ELSE 0]

\* roleminer.py 541-548
WriteFnsNoRoleFilter(rd2, wr, role, datas) ==
    {f \in DOMAIN wr : datas \cap (wr[f] \ rd2[f]) # {}}

WriteFnsConditional(rd2, wr, role, datas) ==
    {f \in DOMAIN wr : datas \cap wr[f] # {}} \cap role.funcs

getWritefuncs(rd2, wr, role, datas) ==
    {f \in DOMAIN wr : datas \cap (wr[f] \ rd2[f]) # {}} \cap role.funcs

\* roleminer.py 544 looks reads2[func] up for every key of writes.
WriteFnsKeyError(rd2, wr) == \E f \in DOMAIN wr : f \notin DOMAIN rd2

\* the tuple added at roleminer.py 591, 595, 600, 602
PolicyTuple(rd2, wr, role, datas) ==
    [role |-> role, data |-> datas,
     privileged_functions |-> getWritefuncs(rd2, wr, role, datas)]

\* roleminer.py 588-602: what iteration (i, j), i < j, adds.
PairPoliciesBothSides(rl, rd2, wr, W, L, i, j) ==
    {PolicyTuple(rd2, wr, rl[i], W[i] \ W[j]),
     PolicyTuple(rd2, wr, rl[j], W[j] \ W[i])}

PairPoliciesLowSide(rl, rd2, wr, W, L, i, j) ==
    IF L[<<i, j>>] = 1
    THEN {PolicyTuple(rd2, wr, rl[j], W[j] \ W[i])}
    ELSE IF L[<<i, j>>] = -1
    THEN {PolicyTuple(rd2, wr, rl[i], W[i] \ W[j])}
    ELSE {}

PairPolicies(rl, rd2, wr, W, L, i, j) ==
    IF L[<<i, j>>] = 1
    THEN {PolicyTuple(rd2, wr, rl[i], W[i] \ W[j])}
    ELSE IF L[<<i, j>>] = -1
    THEN {PolicyTuple(rd2, wr, rl[j], W[j] \ W[i])}
    ELSE (IF W[i] \ W[j] # {}
          THEN {PolicyTuple(rd2, wr, rl[i], W[i] \ W[j])} ELSE {})
         \cup
         (IF W[j] \ W[i] # {}
          THEN {PolicyTuple(rd2, wr, rl[j], W[j] \ W[i])} ELSE {})

Pairs(n) == {p \in (1..n) \X (1..n) : p[1] < p[2]}

EmittedOf(rl, rd2, wr, W, L) ==
    [p \in Pairs(Len(rl)) |-> PairPolicies(rl, rd2, wr, W, L, p[1], p[2])]

\* getWritefuncs is called exactly when some iteration adds a tuple.
EmitKeyError(rl, rd2, wr, W, L) ==
    /\ WriteFnsKeyError(rd2, wr)
    /\ \E p \in Pairs(Len(rl)) :
          \/ L[p] # 0
          \/ W[p[1]] \ W[p[2]] # {}
          \/ W[p[2]] \ W[p[1]] # {}

(***************************************************************************)
(* PolicyDeriver: createInformationSecurityPolicy, one action per phase.   *)
(***************************************************************************)

\* roleminer.py 551-566: the None check and the per-role write sets.
ComputeRW ==
    /\ pcPolicy = "start"
    /\ IF reads = None \/ writes = None
       THEN /\ securityPolicies' = {}
            /\ pcPolicy' = "done"
            /\ UNCHANGED dataW
       ELSE IF RWKeyError(mined_roles, reads, writes)
       THEN /\ pcPolicy' = "error"
            /\ UNCHANGED <<dataW, securityPolicies>>
       ELSE /\ dataW' = ComputeDataW(mined_roles, reads, writes)
            /\ pcPolicy' = "dedup"
            /\ UNCHANGED securityPolicies
    /\ UNCHANGED <<mined_roles, reads, reads2, writes, newDataW,
                   securityLattice, emitted>>
    /\ UNCHANGED otherThanPolicy

\* roleminer.py 568-573
Deduplicate ==
    /\ pcPolicy = "dedup"
    /\ newDataW' = DedupSnapshot(dataW)
    /\ pcPolicy' = "lattice"
    /\ UNCHANGED <<mined_roles, reads, reads2, writes, dataW,
                   securityLattice, emitted, securityPolicies>>
    /\ UNCHANGED otherThanPolicy

\* roleminer.py 575-583
BuildLattice ==
    /\ pcPolicy = "lattice"
    /\ securityLattice' = BuildLatticeOf(newDataW)
    /\ pcPolicy' = "emit"
    /\ UNCHANGED <<mined_roles, reads, reads2, writes, dataW, newDataW,
                   emitted, securityPolicies>>
    /\ UNCHANGED otherThanPolicy

\* roleminer.py 585-604
EmitPolicies ==
    /\ pcPolicy = "emit"
    /\ IF EmitKeyError(mined_roles, reads2, writes, newDataW, securityLattice)
       THEN /\ pcPolicy' = "error"
            /\ UNCHANGED <<emitted, securityPolicies>>
       ELSE /\ emitted' = EmittedOf(mined_roles, reads2, writes, newDataW,
                                    securityLattice)
            /\ securityPolicies' = UNION {emitted'[p] : p \in DOMAIN emitted'}
            /\ pcPolicy' = "done"
    /\ UNCHANGED <<mined_roles, reads, reads2, writes, dataW, newDataW,
                   securityLattice>>
    /\ UNCHANGED otherThanPolicy

NextPolicy == ComputeRW \/ Deduplicate \/ BuildLattice \/ EmitPolicies

(***************************************************************************)
(* PolicyDeriver: inputs.                                                  *)
(***************************************************************************)
AddrName == <<"0xa", "0xb", "0xc", "0xd">>

FuncSets == (SUBSET Funcs) \ {{}}

\* Final roles are unions of groups of basic roles (roleminer.py 336-345,
\* 465-469), so their function sets are non-empty and pairwise disjoint.
FuncSetLists ==
    {<<>>} \cup
    UNION {{S \in [1..k -> FuncSets] :
               \A a, b \in 1..k : a # b => S[a] \cap S[b] = {}}
           : k \in 1..Cardinality(Funcs)}

MakeRoles(S) == [i \in 1..Len(S) |-> [users |-> {AddrName[i]}, funcs |-> S[i]]]

\* Per-function summaries with every function a key of the three mappings
\* (staticAnalyzer.py 54-64 fills the three for each function).
Summaries ==
    {[r |-> {}, r2 |-> {}, w |-> w] : w \in SUBSET Vars}
    \cup {[r |-> {"x"}, r2 |-> {"x"}, w |-> {"x", "y"}],
          [r |-> {}, r2 |-> {"x"}, w |-> {"x", "y"}]}

InitPolicy ==
    /\ \E S \in FuncSetLists : mined_roles = MakeRoles(S)
    /\ \E s \in [Funcs -> Summaries] :
          /\ reads = [f \in Funcs |-> s[f].r]
          /\ reads2 = [f \in Funcs |-> s[f].r2]
          /\ writes = [f \in Funcs |-> s[f].w]
    /\ PolicyIdle
    /\ pcPolicy = "start"
    /\ ReduceIdle
    /\ CanonIdle
    /\ FitnessIdle
    /\ MiningIdle
    /\ HistoryIdle
    /\ GAIdle

SpecPolicy == InitPolicy /\ [][NextPolicy]_vars

(***************************************************************************)
(* PolicyDeriver with incomplete summaries: a function may be missing from *)
(* any of reads, reads2 and writes, and reads may be None.                 *)
(***************************************************************************)
PartialSummaries ==
    [inR : BOOLEAN, inR2 : BOOLEAN, inW : BOOLEAN,
     w : {{}, {"x"}, {"x", "y"}}]

\* the mapping holding key f exactly when present[f]
Restrict(present, val) == [f \in {g \in Funcs : present[g]} |-> val[f]]

InitMissing ==
    /\ \E S \in FuncSetLists : mined_roles = MakeRoles(S)
    /\ \E s \in [Funcs -> PartialSummaries] :
          /\ reads \in {Restrict([f \in Funcs |-> s[f].inR],
                                 [f \in Funcs |-> {}])}
                       \cup (IF \A f \in Funcs : ~s[f].inR /\ ~s[f].inR2
                             THEN {None} ELSE {})
          /\ reads2 = Restrict([f \in Funcs |-> s[f].inR2],
                               [f \in Funcs |-> {}])
          /\ writes = Restrict([f \in Funcs |-> s[f].inW],
                               [f \in Funcs |-> s[f].w])
          /\ \A f \in Funcs : ~s[f].inW => s[f].w = {}
    /\ PolicyIdle
    /\ pcPolicy = "start"
    /\ ReduceIdle
    /\ CanonIdle
    /\ FitnessIdle
    /\ MiningIdle
    /\ HistoryIdle
    /\ GAIdle

SpecMissing == InitMissing /\ [][NextPolicy]_vars

(***************************************************************************)
(* PolicyDeriver: properties.                                              *)
(***************************************************************************)
StrictSubset(A, B) == A \subseteq B /\ A # B

NumRoles == Len(mined_roles)

LatticeBuilt == pcPolicy \in {"emit", "done"}

\* WriteFns(R, D) as the specification words it.
WriteFns(R, D) ==
    {f \in R.funcs : f \in DOMAIN writes /\ (writes[f] \ reads2[f]) \cap D # {}}

ExpectedTuple(k, D) ==
    [role |-> mined_roles[k], data |-> D,
     privileged_functions |-> WriteFns(mined_roles[k], D)]

SeparationTuples(i, j) ==
    {ExpectedTuple(k[1], newDataW[k[1]] \ newDataW[k[2]]) :
        k \in {q \in {<<i, j>>, <<j, i>>} :
                  newDataW[q[1]] \ newDataW[q[2]] # {}}}

\* C1: every pair i < j whose post-deduplication write sets are not strictly
\* nested has L[i,j] = L[j,i] = 0 and is handled as separation: one tuple for
\* each side whose difference against the other side is non-empty.
C1_UnrelatedPairsAreSeparation ==
    pcPolicy = "done" =>
        \A p \in Pairs(NumRoles) :
            (/\ ~StrictSubset(newDataW[p[1]], newDataW[p[2]])
             /\ ~StrictSubset(newDataW[p[2]], newDataW[p[1]]))
            => /\ securityLattice[<<p[1], p[2]>>] = 0
               /\ securityLattice[<<p[2], p[1]>>] = 0
               /\ emitted[p] = SeparationTuples(p[1], p[2])

\* C2: a pair whose post-deduplication write sets are strictly nested adds
\* exactly one policy, (R_b, dataW_b \ dataW_a, WriteFns(R_b, ...)), for the
\* role b with the larger write set, and none for the other role.
C2_NestedPairNamesLargerRole ==
    pcPolicy = "done" =>
        \A p \in Pairs(NumRoles) :
            \A q \in {<<p[1], p[2]>>, <<p[2], p[1]>>} :
                StrictSubset(newDataW[q[1]], newDataW[q[2]])
                => /\ emitted[p] =
                        {ExpectedTuple(q[2], newDataW[q[2]] \ newDataW[q[1]])}
                   /\ \A t \in emitted[p] : t.role # mined_roles[q[1]]

\* C2 witness: a finished run with a nested pair in each orientation, the
\* smaller set non-empty in one of them.
C2_Witness ==
    /\ pcPolicy = "done"
    /\ \E p \in Pairs(NumRoles) :
          /\ StrictSubset(newDataW[p[1]], newDataW[p[2]])
          /\ newDataW[p[1]] # {}
    /\ \E p \in Pairs(NumRoles) : StrictSubset(newDataW[p[2]], newDataW[p[1]])

\* C3 as stated: L[i,j] = +1 and L[j,i] = -1 when dataW_i is a strict subset
\* of dataW_j, and L[i,j] = -1 and L[j,i] = +1 when dataW_j is a strict subset
\* of dataW_i.
C3_LatticeSignsAsStated ==
    LatticeBuilt =>
        \A p \in Pairs(NumRoles) :
            /\ StrictSubset(newDataW[p[1]], newDataW[p[2]])
               => /\ securityLattice[<<p[1], p[2]>>] = 1
                  /\ securityLattice[<<p[2], p[1]>>] = -1
            /\ StrictSubset(newDataW[p[2]], newDataW[p[1]])
               => /\ securityLattice[<<p[1], p[2]>>] = -1
                  /\ securityLattice[<<p[2], p[1]>>] = 1

\* C3 amended: the signs are the other way round: L[i,j] = -1 and L[j,i] = +1
\* when dataW_i is a strict subset of dataW_j, and L[i,j] = +1 and
\* L[j,i] = -1 when dataW_j is a strict subset of dataW_i.
C3_LatticeSigns ==
    LatticeBuilt =>
        \A p \in Pairs(NumRoles) :
            /\ StrictSubset(newDataW[p[1]], newDataW[p[2]])
               => /\ securityLattice[<<p[1], p[2]>>] = -1
                  /\ securityLattice[<<p[2], p[1]>>] = 1
            /\ StrictSubset(newDataW[p[2]], newDataW[p[1]])
               => /\ securityLattice[<<p[1], p[2]>>] = 1
                  /\ securityLattice[<<p[2], p[1]>>] = -1

\* C3 witness: a built lattice over three roles with a nested pair in each
\* orientation.
C3_Witness ==
    /\ LatticeBuilt
    /\ NumRoles = 3
    /\ \E p \in Pairs(NumRoles) : StrictSubset(newDataW[p[1]], newDataW[p[2]])
    /\ \E p \in Pairs(NumRoles) : StrictSubset(newDataW[p[2]], newDataW[p[1]])

\* C4: every emitted policy's privileged functions are functions of its role,
\* and each of them writes (writes[f] \ reads2[f]) a variable of the policy's
\* data.
C4_PrivilegedFunctionsWriteData ==
    \A t \in securityPolicies :
        /\ t.privileged_functions \subseteq t.role.funcs
        /\ \A f \in t.privileged_functions :
              (writes[f] \ reads2[f]) \cap t.data # {}

\* C4 witness: a policy whose role has a function left out of the privileged
\* functions although it contributes to the role's write set, and a policy
\* whose data is written by a function of another role.
C4_Witness ==
    /\ pcPolicy = "done"
    /\ \E t \in securityPolicies :
          /\ t.privileged_functions # {}
          /\ \E f \in t.role.funcs \ t.privileged_functions :
                (writes[f] \ reads[f]) \cap t.data # {}
    /\ \E t \in securityPolicies :
          \E g \in Funcs \ t.role.funcs :
              (writes[g] \ reads2[g]) \cap t.data # {}

\* C5: the lattice matrix is antisymmetric with a zero diagonal.
C5_LatticeAntisymmetric ==
    LatticeBuilt =>
        \A i, j \in 1..NumRoles :
            /\ securityLattice[<<i, j>>] = -securityLattice[<<j, i>>]
            /\ securityLattice[<<i, i>>] = 0

\* C5 witness: a built lattice over three roles with a positive and a negative
\* entry above the diagonal.
C5_Witness ==
    /\ LatticeBuilt
    /\ NumRoles = 3
    /\ \E p \in Pairs(NumRoles) : securityLattice[p] = 1
    /\ \E p \in Pairs(NumRoles) : securityLattice[p] = -1

DedupDone == pcPolicy \in {"lattice", "emit", "done"}

OnLeft(v, i) == \E j \in 1..(i - 1) : v \in dataW[j]

OnRight(v, i) == \E j \in (i + 1)..NumRoles : v \in dataW[j]

\* C6: after the deduplication pass a variable of role i's write set is removed
\* exactly when it is in the write set of a role with a smaller index and in
\* the write set of no role with a larger index.
C6_DedupRemovesLeftNotRight ==
    DedupDone =>
        /\ Len(newDataW) = Len(dataW)
        /\ \A i \in 1..NumRoles :
              /\ newDataW[i] \subseteq dataW[i]
              /\ \A v \in dataW[i] :
                    v \notin newDataW[i] <=> (OnLeft(v, i) /\ ~OnRight(v, i))

\* C6 witness: the pass removed a variable from one role and kept a variable
\* that is on the left because it is on the right as well.
C6_Witness ==
    /\ DedupDone
    /\ \E i \in 1..NumRoles : \E v \in dataW[i] : v \notin newDataW[i]
    /\ \E i \in 1..NumRoles :
          \E v \in newDataW[i] : OnLeft(v, i) /\ OnRight(v, i)

\* The strict-hierarchy scenario: admin {f1}, operator {f2}, user {f3}, empty
\* reads, writes[f1] a strict superset of writes[f2] a strict superset of
\* writes[f3].
StrictHierarchy ==
    /\ NumRoles = 3
    /\ \A i \in 1..3 : Cardinality(mined_roles[i].funcs) = 1
    /\ \A f \in Funcs : reads[f] = {} /\ reads2[f] = {}
    /\ StrictSubset(writes["f2"], writes["f1"])
    /\ StrictSubset(writes["f3"], writes["f2"])

RoleOf(f) == CHOOSE i \in 1..NumRoles : mined_roles[i].funcs = {f}

\* an integrity policy of the pair that names role hi
PlacedAbove(hi, lo) ==
    /\ securityLattice[<<hi, lo>>] = 1
    /\ ExpectedTuple(hi, newDataW[hi] \ newDataW[lo]) \in securityPolicies

\* C7 as stated: in the strict-hierarchy scenario exactly two policies are
\* emitted, one placing admin above operator and one placing operator above
\* user.
C7_TwoPoliciesAsStated ==
    (pcPolicy = "done" /\ StrictHierarchy) =>
        /\ Cardinality(securityPolicies) = 2
        /\ PlacedAbove(RoleOf("f1"), RoleOf("f2"))
        /\ PlacedAbove(RoleOf("f2"), RoleOf("f3"))

InOrderUserOperatorAdmin ==
    /\ mined_roles[1].funcs = {"f3"}
    /\ mined_roles[2].funcs = {"f2"}
    /\ mined_roles[3].funcs = {"f1"}

\* C7 amended: in the strict-hierarchy scenario between one and four policies
\* are emitted; with the roles in the order user, operator, admin and
\* writes[f3] empty there are exactly two, (operator, writes[f2]) placing
\* operator above user and (admin, writes[f1] \ writes[f2]) placing admin
\* above user, and the lattice does not place admin above operator.
C7_StrictHierarchyPolicies ==
    (pcPolicy = "done" /\ StrictHierarchy) =>
        /\ Cardinality(securityPolicies) \in 1..4
        /\ (InOrderUserOperatorAdmin /\ writes["f3"] = {})
           => /\ securityPolicies =
                    {[role |-> mined_roles[2], data |-> writes["f2"],
                      privileged_functions |-> {"f2"}],
                     [role |-> mined_roles[3],
                      data |-> writes["f1"] \ writes["f2"],
                      privileged_functions |-> {"f1"}]}
              /\ PlacedAbove(2, 1)
              /\ PlacedAbove(3, 1)
              /\ ~PlacedAbove(3, 2)

\* C7 witness: the scenario in the order user, operator, admin with writes[f3]
\* empty, finished.
C7_Witness ==
    /\ pcPolicy = "done"
    /\ StrictHierarchy
    /\ InOrderUserOperatorAdmin
    /\ writes["f3"] = {}
    /\ Cardinality(writes["f1"]) = 3

\* the whole of createInformationSecurityPolicy on complete summaries
CreatePolicies(rl, rd, rd2, wr) ==
    LET W == DedupSnapshot(ComputeDataW(rl, rd, wr))
        E == EmittedOf(rl, rd2, wr, W, BuildLatticeOf(W))
    IN  UNION {E[p] : p \in DOMAIN E}

\* the mapping with the empty set at every missing key
FillEmpty(m) == [f \in Funcs |-> IF f \in DOMAIN m THEN m[f] ELSE {}]

SomeKeyMissing ==
    \E f \in Funcs :
        f \notin DOMAIN reads \/ f \notin DOMAIN reads2 \/ f \notin DOMAIN writes

\* C8: when a function is missing from any of reads, reads2 and writes, the
\* derivation ends without an error and returns what it returns with the
\* empty set in place of every missing entry.
C8_MissingSummaryIsEmpty ==
    (pcPolicy \in {"done", "error"} /\ reads # None /\ SomeKeyMissing) =>
        /\ pcPolicy = "done"
        /\ securityPolicies =
              CreatePolicies(mined_roles, FillEmpty(reads), FillEmpty(reads2),
                             FillEmpty(writes))

(***************************************************************************)
(* LatticeBuilder: the concepts handed to the reducer                      *)
(* (GA_RM.createBasicLatticeRoles, translateLattice2Role).                 *)
(***************************************************************************)

\* UserIds are dense, 0 .. k-1 (roleminer.py 96-97)
UserIdsOf(P) == DOMAIN P

ObservedFuncs(P) == UNION {P[u] : u \in DOMAIN P}

CommonFuncs(P, U) == {f \in ObservedFuncs(P) : \A u \in U : f \in P[u]}

CommonUsers(P, S) == {u \in DOMAIN P : S \subseteq P[u]}

\* concepts.Context(objects = functions, properties = users, bools).lattice:
\* every closed pair, the extent being the function set.
Concepts(P) ==
    {[users |-> CommonUsers(P, S), funcs |-> CommonFuncs(P, CommonUsers(P, S))] :
        S \in SUBSET ObservedFuncs(P)}

RECURSIVE Orderings(_)
Orderings(S) ==
    IF S = {} THEN {<<>>}
    ELSE UNION {{<<x>> \o q : q \in Orderings(S \ {x})} : x \in S}

\* roleminer.py 255-260: the concepts with a non-empty function set and a
\* non-empty user set, in the order the lattice yields them.  That order is
\* the library's, so every order is allowed here.  The string clean-up of
\* line 259 leaves a function name without "(" , ",)" and "'" unchanged.
translateLattice2Role(P) ==
    Orderings({c \in Concepts(P) : c.funcs # {} /\ c.users # {}})

(***************************************************************************)
(* HierarchyReducer: buildRoleHierarchy, dfsReduceRecursive, ReduceMain.   *)
(***************************************************************************)

\* roleminer.py 140-151
buildRoleHierarchy(rl) ==
    [p \in (1..Len(rl)) \X (1..Len(rl)) |->
        IF p[1] # p[2] /\ rl[p[1]].users \subseteq rl[p[2]].users
        THEN 1 ELSE 0]

RECURSIVE SumOver(_, _)
SumOver(f, D) ==
    IF D = {} THEN 0
    ELSE LET d == CHOOSE x \in D : TRUE IN f[d] + SumOver(f, D \ {d})

\* np.sum(hierarchyMatrix[i]) and np.sum(hierarchyMatrix[:, i])
RowSum(H, n, i) == SumOver(H, {<<i, j>> : j \in 1..n})

ColSum(H, n, i) == SumOver(H, {<<j, i>> : j \in 1..n})

\* a row that is left as it is
KeepRow(H, n, i) == H

\* roleminer.py 173 and 202
ClearRow(H, n, i) == [p \in DOMAIN H |-> IF p[1] = i THEN 0 ELSE H[p]]

\* a trimming that stops after the first parent
TrimAgainstFirstParent(st, i) ==
    LET parents == {k \in 1..Len(st.roles) : st.H[<<i, k>>] = 1}
    IN  IF parents = {} THEN st.roles[i].funcs
        ELSE st.roles[i].funcs
                 \ st.roles[CHOOSE k \in parents :
                                \A m \in parents : k <= m].funcs

\* roleminer.py 161-166 and 184-189: funcSet1 after the loop over the parents
TrimAgainstParents(st, i) ==
    st.roles[i].funcs \
        UNION {st.roles[j].funcs :
                  j \in {k \in 1..Len(st.roles) : st.H[<<i, k>>] = 1}}

\* roleminer.py 168-173 and 197-202; trimmed records the indices that went
\* through these lines, in order
KeepOrRemove(st, i, userSet1, funcSet1) ==
    [roles   |-> IF funcSet1 = {} THEN st.roles
                 ELSE [st.roles EXCEPT
                          ![i] = [users |-> userSet1, funcs |-> funcSet1]],
     H       |-> ClearRow(st.H, Len(st.roles), i),
     removes |-> IF funcSet1 = {} THEN Append(st.removes, i) ELSE st.removes,
     trimmed |-> Append(st.trimmed, i)]

\* the reducer with the trimming left out
dfsReduceNoTrim(st, i) ==
    [st EXCEPT !.H = ClearRow(st.H, Len(st.roles), i)]

RECURSIVE dfsReduceRecursive(_, _), RecurseIntoChildren(_, _, _)

\* roleminer.py 154-202 on the state st = [roles, H, removes]
dfsReduceRecursive(st, i) ==
    LET n == Len(st.roles)
        numOfparentroles == RowSum(st.H, n, i)
        numOfchildroles == ColSum(st.H, n, i)
    IN  IF numOfparentroles > 0 /\ numOfchildroles = 0
        THEN KeepOrRemove(st, i, st.roles[i].users, TrimAgainstParents(st, i))
        ELSE IF numOfparentroles = 0 /\ numOfchildroles > 0
        THEN RecurseIntoChildren(st, i, 1)
        ELSE IF numOfparentroles > 0 /\ numOfchildroles > 0
        THEN KeepOrRemove(RecurseIntoChildren(st, i, 1), i,
                          st.roles[i].users, TrimAgainstParents(st, i))
        ELSE st

\* roleminer.py 178-180 and 192-194: the loop over j from position j on
RecurseIntoChildren(st, i, j) ==
    IF j > Len(st.roles) THEN st
    ELSE RecurseIntoChildren(
             IF st.H[<<j, i>>] = 1 THEN dfsReduceRecursive(st, j) ELSE st,
             i, j + 1)

SetMax(S) == CHOOSE m \in S : \A x \in S : x <= m

SetMin(S) == CHOOSE m \in S : \A x \in S : m <= x

RemoveAt(rl, i) == SubSeq(rl, 1, i - 1) \o SubSeq(rl, i + 1, Len(rl))

\* a pop of the marked indices, smallest first, which shifts the later ones
RECURSIVE PopAscending(_, _)
PopAscending(rl, S) ==
    IF S = {} THEN rl
    ELSE PopAscending(
             IF SetMin(S) <= Len(rl) THEN RemoveAt(rl, SetMin(S)) ELSE rl,
             S \ {SetMin(S)})

\* roleminer.py 213-215: pop the marked indices, largest first
RECURSIVE PopDescending(_, _)
PopDescending(rl, S) ==
    IF S = {} THEN rl
    ELSE PopDescending(RemoveAt(rl, SetMax(S)), S \ {SetMax(S)})

SeqRange(q) == {q[k] : k \in 1..Len(q)}

\* roleminer.py 205-208
BuildHierarchy ==
    /\ pcReduce = "build"
    /\ hierarchyMatrix' = buildRoleHierarchy(roles)
    /\ removes' = <<>>
    /\ loopIndex' = 1
    /\ pcReduce' = "dfs"
    /\ UNCHANGED <<permissionMatrix, verybasic_usergroups, roles, basicRoles>>
    /\ UNCHANGED otherThanReduce

\* roleminer.py 209-210: one iteration of the loop, the whole recursion
DfsStep ==
    /\ pcReduce = "dfs"
    /\ loopIndex <= Len(roles)
    /\ LET st == dfsReduceRecursive(
                     [roles |-> roles, H |-> hierarchyMatrix,
                      removes |-> removes, trimmed |-> <<>>], loopIndex)
       IN  /\ roles' = st.roles
           /\ hierarchyMatrix' = st.H
           /\ removes' = st.removes
    /\ loopIndex' = loopIndex + 1
    /\ UNCHANGED <<permissionMatrix, verybasic_usergroups, basicRoles,
                   pcReduce>>
    /\ UNCHANGED otherThanReduce

\* roleminer.py 213-221
PopRemoved ==
    /\ pcReduce = "dfs"
    /\ loopIndex > Len(roles)
    /\ roles' = PopDescending(roles, SeqRange(removes))
    /\ basicRoles' = roles'
    /\ pcReduce' = "done"
    /\ UNCHANGED <<permissionMatrix, verybasic_usergroups, hierarchyMatrix,
                   removes, loopIndex>>
    /\ UNCHANGED otherThanReduce

NextReduce == BuildHierarchy \/ DfsStep \/ PopRemoved

\* Every user of the matrix has a retained record (roleminer.py 117-119), so
\* no row is empty; the observed functions are those of some row.
PermissionMatrices ==
    UNION {[0..(k - 1) -> FuncSets] : k \in 1..NumUsers}

\* roleminer.py 250-251
InitReduce ==
    /\ permissionMatrix \in PermissionMatrices
    /\ verybasic_usergroups \in translateLattice2Role(permissionMatrix)
    /\ roles = verybasic_usergroups
    /\ hierarchyMatrix = <<>>
    /\ removes = <<>>
    /\ loopIndex = 0
    /\ basicRoles = <<>>
    /\ pcReduce = "build"
    /\ mined_roles = <<>>
    /\ reads = None
    /\ reads2 = None
    /\ writes = None
    /\ PolicyIdle
    /\ pcPolicy = "idle"
    /\ CanonIdle
    /\ FitnessIdle
    /\ MiningIdle
    /\ HistoryIdle
    /\ GAIdle

SpecReduce == InitReduce /\ [][NextReduce]_vars

\* the role lists ReduceMain can be given: up to MaxRoles roles with
\* non-empty, pairwise distinct user sets
UserSets == SUBSET {0, 1, 2} \ {{}}

RoleLists ==
    UNION {{rl \in [1..n -> [users : UserSets, funcs : {{"f1"}, {"f1", "f2"}}]] :
               \A i, j \in 1..n : i # j => rl[i].users # rl[j].users} :
           n \in 1..MaxRoles}

\* roleminer.py 204: ReduceMain on any such list
InitReduceAny ==
    /\ permissionMatrix = <<>>
    /\ verybasic_usergroups \in RoleLists
    /\ roles = verybasic_usergroups
    /\ hierarchyMatrix = <<>>
    /\ removes = <<>>
    /\ loopIndex = 0
    /\ basicRoles = <<>>
    /\ pcReduce = "build"
    /\ mined_roles = <<>>
    /\ reads = None
    /\ reads2 = None
    /\ writes = None
    /\ PolicyIdle
    /\ pcPolicy = "idle"
    /\ CanonIdle
    /\ FitnessIdle
    /\ MiningIdle
    /\ HistoryIdle
    /\ GAIdle

\* ReduceMain is straight-line code around a loop: a step that can be taken
\* is taken
SpecReduceAny == InitReduceAny /\ [][NextReduce]_vars /\ WF_vars(NextReduce)

(***************************************************************************)
(* Chromosome canonicalization: eval_func of GA_RM.process.                *)
(***************************************************************************)

\* The two chromosomes whose canonical forms are compared.
Individuals == {"g1", "g2"}

\* A gene is a real in [0, n], n the chromosome length (roleminer.py 476-480:
\* G1DList(n), rangemin 0, rangemax n, real initializator and mutator).  It is
\* kept as <<whole part, 1 if there is a fractional part else 0>>.
Genes ==
    {g \in (0..ChromLen) \X {0, 1} : ~(g[1] = ChromLen /\ g[2] = 1)}

Chromosomes == [1..ChromLen -> Genes]

\* int(x) of a non-negative real (roleminer.py 444)
ToInt(g) == g[1]

\* an int stored back into the chromosome (roleminer.py 449)
FromInt(k) == <<k, 0>>

\* roleminer.py 444
IntGenes(c) == [p \in DOMAIN c |-> ToInt(c[p])]

\* a relabelling by rank from the largest value down
RankRelabelDescending(ints) ==
    [p \in DOMAIN ints |->
        Cardinality({ints[q] : q \in {r \in DOMAIN ints : ints[r] > ints[p]}})]

\* roleminer.py 445-446: role_ids = sorted(list(set(new_chromosome))) and
\* role_ids.index(x), the number of distinct values below x
RankRelabel(ints) ==
    [p \in DOMAIN ints |->
        Cardinality({ints[q] : q \in {r \in DOMAIN ints : ints[r] < ints[p]}})]

\* roleminer.py 443-449: the chromosome after eval_func
Canonicalize(c) ==
    LET new_chromosome == RankRelabel(IntGenes(c))
    IN  [p \in DOMAIN c |-> FromInt(new_chromosome[p])]

\* roleminer.py 443-451
EvalFunc(k) ==
    /\ k \in DOMAIN genomes
    /\ genomes' = [genomes EXCEPT ![k] = Canonicalize(genomes[k])]
    /\ evaluated' = evaluated \cup {k}
    /\ evalCache' = evalCache \cup {IntGenes(Canonicalize(genomes[k]))}
    /\ UNCHANGED offered
    /\ UNCHANGED otherThanCanon

NextCanon == \E k \in Individuals : EvalFunc(k)

InitCanon ==
    /\ offered \in [Individuals -> Chromosomes]
    /\ genomes = offered
    /\ evaluated = {}
    /\ evalCache = {}
    /\ mined_roles = <<>>
    /\ reads = None
    /\ reads2 = None
    /\ writes = None
    /\ PolicyIdle
    /\ pcPolicy = "idle"
    /\ ReduceIdle
    /\ FitnessIdle
    /\ MiningIdle
    /\ HistoryIdle
    /\ GAIdle

SpecCanon == InitCanon /\ [][NextCanon]_vars

(***************************************************************************)
(* Properties of the reducer.                                              *)
(***************************************************************************)

ReduceDone == pcReduce = "done"

\* the function sets of the roles of rl whose user sets strictly contain U
AncestorFuncs(rl, U) ==
    UNION {rl[k].funcs :
              k \in {m \in 1..Len(rl) :
                        U \subseteq rl[m].users /\ U # rl[m].users}}

\* the concept a surviving role was trimmed from
ConceptOf(r) ==
    CHOOSE c \in SeqRange(verybasic_usergroups) : c.users = r.users

\* C9: after ReduceMain on the concepts of a permission matrix, every
\* surviving basic role has a non-empty user set and a non-empty trimmed
\* function set, and that function set is not contained in the union of the
\* function sets of the roles whose user sets strictly contain its own,
\* whether those are taken among the surviving roles or among the concepts.
C9_SurvivorNotCoveredByAncestors ==
    ReduceDone =>
        \A k \in 1..Len(basicRoles) :
            LET r == basicRoles[k] IN
            /\ r.users # {}
            /\ r.funcs # {}
            /\ ~(r.funcs \subseteq AncestorFuncs(basicRoles, r.users))
            /\ ~(r.funcs \subseteq AncestorFuncs(verybasic_usergroups, r.users))

\* a finished reduction in which one role was removed and another survives
\* trimmed below a surviving role with strictly more users
C9_Witness ==
    /\ ReduceDone
    /\ Len(basicRoles) < Len(verybasic_usergroups)
    /\ \E k \in 1..Len(basicRoles) :
          /\ basicRoles[k].funcs # ConceptOf(basicRoles[k]).funcs
          /\ AncestorFuncs(basicRoles, basicRoles[k].users) # {}

(***************************************************************************)
(* Properties of the canonicalization.                                     *)
(***************************************************************************)

\* the first position of ints that holds the value v
FirstPos(ints, v) ==
    CHOOSE p \in DOMAIN ints :
        ints[p] = v /\ \A q \in DOMAIN ints : ints[q] = v => p <= q

\* the relabelling that numbers the values 0, 1, 2, ... in order of first
\* occurrence
RelabelByFirstOccurrence(ints) ==
    [p \in DOMAIN ints |->
        Cardinality({ints[q] :
            q \in {r \in DOMAIN ints : r < FirstPos(ints, ints[p])}})]

\* two chromosomes put the same positions together
SameGrouping(c, d) ==
    \A p, q \in DOMAIN c :
        (ToInt(c[p]) = ToInt(c[q])) <=> (ToInt(d[p]) = ToInt(d[q]))

\* the labels of c are 0, 1, 2, ... in order of first occurrence
FirstOccurrenceOrder(c) ==
    IntGenes(c) = RelabelByFirstOccurrence(IntGenes(c))

\* C10: two evaluated chromosomes that grouped their positions identically
\* when they were handed to eval_func have been rewritten to the same
\* chromosome, and its labels are 0, 1, 2, ... in order of first occurrence.
C10_SameGroupingSameCanonical ==
    \A a, b \in evaluated :
        SameGrouping(offered[a], offered[b]) =>
            /\ genomes[a] = genomes[b]
            /\ FirstOccurrenceOrder(genomes[a])

\* every gene of c is an integer
IntegerGenes(c) == \A p \in DOMAIN c : c[p] = FromInt(ToInt(c[p]))

\* C11: canonicalization is idempotent.  A chromosome eval_func has
\* rewritten is left unchanged, gene by gene, by a further eval_func; this
\* holds for the integer chromosomes and for the real ones.
C11_CanonicalizationIdempotent ==
    \A k \in evaluated :
        /\ IntegerGenes(genomes[k])
        /\ \A p \in 1..ChromLen :
              Canonicalize(genomes[k])[p] = genomes[k][p]
        /\ Canonicalize(Canonicalize(offered[k])) = Canonicalize(offered[k])

\* an integer chromosome that eval_func changed, and whose canonical form is
\* already in the cache for the next evaluation
C11_Witness ==
    \E k \in evaluated :
        /\ IntegerGenes(offered[k])
        /\ genomes[k] # offered[k]
        /\ IntGenes(genomes[k]) \in evalCache

(***************************************************************************)
(* ReduceMain as one function of the concept list.                         *)
(***************************************************************************)

\* roleminer.py 209-210: the loop over i from position i on
RECURSIVE ReduceLoop(_, _)
ReduceLoop(st, i) ==
    IF i > Len(st.roles) THEN st
    ELSE ReduceLoop(dfsReduceRecursive(st, i), i + 1)

\* roleminer.py 204-221
ReduceMain(rl) ==
    LET st == ReduceLoop([roles |-> rl, H |-> buildRoleHierarchy(rl),
                          removes |-> <<>>, trimmed |-> <<>>], 1)
    IN  PopDescending(st.roles, SeqRange(st.removes))

\* roleminer.py 250-251: the basic roles a permission matrix can give
BasicRolesOf(P) == {ReduceMain(q) : q \in translateLattice2Role(P)}

(***************************************************************************)
(* Fitness: translateChromosome2Roles, simErr, genErr, cached_eval_func.   *)
(* Exact values are kept: a ratio is a reduced pair <<num, den>>, a cosine *)
(* is kept by its square, and a sum or a maximum of cosines is kept as the *)
(* sequence of its operands in the order the code visits them.             *)
(***************************************************************************)

RECURSIVE GCD(_, _)
GCD(a, b) == IF b = 0 THEN a ELSE GCD(b, a % b)

Ratio(n, d) == <<n \div GCD(n, d), d \div GCD(n, d)>>

RatioAdd(x, y) == Ratio(x[1] * y[2] + y[1] * x[2], x[2] * y[2])

RatioLess(x, y) == x[1] * y[2] < y[1] * x[2]

RatioMul(x, y) == Ratio(x[1] * y[1], x[2] * y[2])

RatioDiv(x, y) == Ratio(x[1] * y[2], x[2] * y[1])

RECURSIVE RatioSum(_, _)
RatioSum(f, D) ==
    IF D = {} THEN <<0, 1>>
    ELSE LET d == CHOOSE x \in D : TRUE
         IN  RatioAdd(f[d], RatioSum(f, D \ {d}))

\* the merge groups keyed by gene value: a dict keeps its keys in order of
\* insertion (roleminer.py 341-342)
RECURSIVE KeysInOrder(_, _)
KeysInOrder(ints, n) ==
    IF n = 0 THEN <<>>
    ELSE LET before == KeysInOrder(ints, n - 1)
         IN  IF ints[n] \in SeqRange(before) THEN before
             ELSE Append(before, ints[n])

\* np.where(np.array(new_chromosome) == val)[0]: the positions, ascending
IndicesOf(ints, val) ==
    SelectSeq([p \in 1..Len(ints) |-> p], LAMBDA p : ints[p] = val)

\* a decoding that leaves out the basic roles labelled 0
translateSkippingLabelZero(chromosome, trainBasicRoles) ==
    LET new_chromosome == [p \in DOMAIN chromosome |-> chromosome[p][1]]
        keys == SelectSeq(KeysInOrder(new_chromosome, Len(new_chromosome)),
                          LAMBDA v : v # 0)
    IN  [g \in 1..Len(keys) |->
            LET basicRoleIndices == IndicesOf(new_chromosome, keys[g])
            IN  [m \in 1..Len(basicRoleIndices) |->
                    trainBasicRoles[basicRoleIndices[m]]]]

\* roleminer.py 336-345: the final roles, each the list of its basic roles
translateChromosome2Roles(chromosome, trainBasicRoles) ==
    LET new_chromosome == IntGenes(chromosome)
        keys == KeysInOrder(new_chromosome, Len(new_chromosome))
    IN  [g \in 1..Len(keys) |->
            LET basicRoleIndices == IndicesOf(new_chromosome, keys[g])
            IN  [m \in 1..Len(basicRoleIndices) |->
                    trainBasicRoles[basicRoleIndices[m]]]]

\* roleminer.py 287-298: the average frequency vector of a role over all
\* functions, each entry the ratio (sum of the counts of its users) / users
getAFV(F, role) ==
    [f \in Funcs |->
        Ratio(SumOver([u \in role.users |-> F[u][f]], role.users),
              Cardinality(role.users))]

\* roleminer.py 300-309: 1 - cosine distance, the cosine of the two vectors,
\* kept as its square dot^2 / (|a|^2 |b|^2)
calcsimilarity(F, roleA, roleB) ==
    LET AFV_a == getAFV(F, roleA)
        AFV_b == getAFV(F, roleB)
        dot == RatioSum([f \in Funcs |-> RatioMul(AFV_a[f], AFV_b[f])], Funcs)
        na == RatioSum([f \in Funcs |-> RatioMul(AFV_a[f], AFV_a[f])], Funcs)
        nb == RatioSum([f \in Funcs |-> RatioMul(AFV_b[f], AFV_b[f])], Funcs)
    IN  RatioDiv(RatioMul(dot, dot), RatioMul(na, nb))

\* max(simError, x) on squared cosines (roleminer.py 352, 357): the first
\* argument stays on a tie
MaxSimilarity(simError, x) == IF RatioLess(simError, x) THEN x ELSE simError

\* roleminer.py 350-352: the largest similarity of role1 to a role of crole2
RECURSIVE BestMatch(_, _, _, _, _)
BestMatch(F, role1, crole2, m, simError) ==
    IF m > Len(crole2) THEN simError
    ELSE BestMatch(F, role1, crole2, m + 1,
                   MaxSimilarity(simError, calcsimilarity(F, role1, crole2[m])))

\* roleminer.py 347-360: sumSimError / (len(crole1) + len(crole2)), kept as
\* the summands in the order they are added and the divisor
calculateTwoMineCompositeRolesSimilarity(F, crole1, crole2) ==
    [summands |->
        [m \in 1..Len(crole1) |-> BestMatch(F, crole1[m], crole2, 1, <<0, 1>>)]
        \o [m \in 1..Len(crole2) |->
               BestMatch(F, crole2[m], crole1, 1, <<0, 1>>)],
     divisor |-> Len(crole1) + Len(crole2)]

\* range(n-1) x range(i+1, n) in loop order (roleminer.py 367-368)
RECURSIVE PairsInOrder(_, _, _)
PairsInOrder(n, i, j) ==
    IF i >= n THEN <<>>
    ELSE IF j > n THEN PairsInOrder(n, i + 1, i + 2)
    ELSE <<<<i, j>>>> \o PairsInOrder(n, i, j + 1)

\* roleminer.py 362-372: the maximum over the pairs of final roles, kept as
\* the operands of max in loop order; no operand when there is one role
calculateRoleSimilarityError(F, finalroles) ==
    LET n == Len(finalroles)
        prs == PairsInOrder(n, 1, 2)
    IN  IF n = 1 THEN <<>>
        ELSE [k \in 1..Len(prs) |->
                 calculateTwoMineCompositeRolesSimilarity(
                     F, finalroles[prs[k][1]], finalroles[prs[k][2]])]

\* the function set of the first basic role of a final role only
FirstChildFuncs(crole) == crole[1].funcs

\* the union of the function sets of the basic roles of a final role
\* (roleminer.py 379, 413)
GroupFuncs(crole) == UNION {crole[m].funcs : m \in 1..Len(crole)}

\* roleminer.py 374-386: the index of the first final role with the largest
\* positive Jaccard similarity to sourceRole, 0 when there is none (None)
RECURSIVE ClosestFrom(_, _, _, _, _)
ClosestFrom(sourceRole, rl, i, maxSimilarity, closestRole) ==
    IF i > Len(rl) THEN closestRole
    ELSE LET roleA_functions == GroupFuncs(rl[i])
             similarity ==
                 Ratio(Cardinality(roleA_functions \cap sourceRole.funcs),
                       Cardinality(roleA_functions \cup sourceRole.funcs))
         IN  IF RatioLess(maxSimilarity, similarity)
             THEN ClosestFrom(sourceRole, rl, i + 1, similarity, i)
             ELSE ClosestFrom(sourceRole, rl, i + 1, maxSimilarity,
                              closestRole)

getClosestRoleInRoleSet(sourceRole, rl) ==
    ClosestFrom(sourceRole, rl, 1, <<0, 1>>, 0)

\* roleminer.py 395-399: the permissions the users of the role hold
getTestRoleL1Norm(P, role) ==
    Cardinality({c \in role.users \X Funcs : c[2] \in P[c[1]]})

\* roleminer.py 401-405: the cells of users x funcs that are not permissions
getDelta(P, predictedRole) ==
    Cardinality(predictedRole.users) * Cardinality(predictedRole.funcs)
    - Cardinality({c \in predictedRole.users \X predictedRole.funcs :
                      c[2] \in P[c[1]]})

\* roleminer.py 410-413: the role predicted for a test role that has a
\* closest final role
PredictedRole(role, finalroles) ==
    [users |-> role.users,
     funcs |-> GroupFuncs(finalroles[getClosestRoleInRoleSet(role,
                                                             finalroles)])]

\* roleminer.py 407-429, the loop from test role k on: [genError, counter]
RECURSIVE GenErrorFrom(_, _, _, _, _)
GenErrorFrom(P, testBasicRoles, finalroles, k, acc) ==
    IF k > Len(testBasicRoles) THEN acc
    ELSE LET role == testBasicRoles[k]
             closestRole == getClosestRoleInRoleSet(role, finalroles)
             predictedRole == PredictedRole(role, finalroles)
             delta == getDelta(P, predictedRole)
             error == Ratio(delta, getTestRoleL1Norm(P, role) + delta)
         IN  IF closestRole = 0
             THEN GenErrorFrom(P, testBasicRoles, finalroles, k + 1, acc)
             ELSE IF error[1] > 0
             THEN GenErrorFrom(P, testBasicRoles, finalroles, k + 1,
                      [genError |-> RatioAdd(acc.genError, error),
                       counter |-> acc.counter + 1])
             ELSE GenErrorFrom(P, testBasicRoles, finalroles, k + 1, acc)

\* roleminer.py 407-429
calculateGeneralizationError(P, testBasicRoles, finalroles) ==
    LET acc == GenErrorFrom(P, testBasicRoles, finalroles, 1,
                            [genError |-> <<0, 1>>, counter |-> 0])
    IN  IF acc.counter > 0
        THEN RatioDiv(acc.genError, <<acc.counter, 1>>)
        ELSE <<0, 1>>

\* roleminer.py 431-440: the two errors the score
\* 1 / (a * simErr + b * genErr + 0.001) is computed from
cached_eval_func(P, F, trainBasicRoles, chromosome) ==
    LET finalroles == translateChromosome2Roles(chromosome, trainBasicRoles)
    IN  [simErr |-> calculateRoleSimilarityError(F, finalroles),
         genErr |-> calculateGeneralizationError(P, trainBasicRoles,
                                                 finalroles)]

(***************************************************************************)
(* Evaluation of two individuals of one population (SpecFitness).          *)
(***************************************************************************)

\* The histories of two callers; they give one, two or three basic roles.
FitnessMatrices == [{0, 1} -> FuncSets]

\* F for a matrix P in which the caller heavy, if there is one, made every
\* call twice (roleminer.py 127-129)
CountsOf(P, heavy) ==
    [u \in DOMAIN P |->
        [f \in Funcs |->
            IF f \in P[u] THEN (IF u = heavy THEN 2 ELSE 1) ELSE 0]]

\* the chromosomes of length n with integer genes, as eval_func and the
\* swap mutator leave them; the whole part of a gene drawn from [0, n) is
\* one of 0 .. n-1 (roleminer.py 476-482)
IntegerChromosomes(n) == [1..n -> {FromInt(k) : k \in 0..(n - 1)}]

\* roleminer.py 443-451 with the fitness of roleminer.py 431-440, once for
\* each individual of the generation
EvalAndScore(k) ==
    /\ k \in DOMAIN genomes
    /\ k \notin evaluated
    /\ genomes' = [genomes EXCEPT ![k] = Canonicalize(genomes[k])]
    /\ evaluated' = evaluated \cup {k}
    /\ evalCache' = evalCache \cup {IntGenes(Canonicalize(genomes[k]))}
    /\ scores' = [scores EXCEPT ![k] =
                     cached_eval_func(permissionMatrix, freqMatrix,
                                      basicRoles, Canonicalize(genomes[k]))]
    /\ UNCHANGED <<offered, freqMatrix>>
    /\ UNCHANGED <<policyVars, reduceVars, miningVars, historyVars, gaVars>>

NextFitness == \E k \in Individuals : EvalAndScore(k)

\* The GA runs when there are at least two basic roles (roleminer.py
\* 476-477).  The two individuals group the basic roles alike.
InitFitness ==
    /\ permissionMatrix \in FitnessMatrices
    /\ basicRoles \in {b \in BasicRolesOf(permissionMatrix) : Len(b) > 1}
    /\ freqMatrix \in {CountsOf(permissionMatrix, heavy) : heavy \in {-1, 0}}
    /\ offered \in
          UNION {{[k \in Individuals |-> IF k = "g1" THEN c ELSE d] :
                     d \in {e \in IntegerChromosomes(Len(basicRoles)) :
                               SameGrouping(c, e)}} :
                    c \in IntegerChromosomes(Len(basicRoles))}
    /\ genomes = offered
    /\ evaluated = {}
    /\ evalCache = {}
    /\ scores = [k \in Individuals |-> <<>>]
    /\ verybasic_usergroups = <<>>
    /\ roles = <<>>
    /\ hierarchyMatrix = <<>>
    /\ removes = <<>>
    /\ loopIndex = 0
    /\ pcReduce = "done"
    /\ mined_roles = <<>>
    /\ reads = None
    /\ reads2 = None
    /\ writes = None
    /\ PolicyIdle
    /\ pcPolicy = "idle"
    /\ MiningIdle
    /\ HistoryIdle
    /\ GAIdle

SpecFitness == InitFitness /\ [][NextFitness]_vars

\* C12: two evaluated chromosomes that group the basic roles identically,
\* under gene values renamed, have the same simErr and the same genErr, and
\* so the same score 1 / (a * simErr + b * genErr + 0.001).
C12_FitnessDependsOnGroupingOnly ==
    \A a, b \in evaluated :
        SameGrouping(offered[a], offered[b]) =>
            /\ scores[a].simErr = scores[b].simErr
            /\ scores[a].genErr = scores[b].genErr
            /\ scores[a] = scores[b]

\* both evaluated, same groups under different labels that eval_func leaves
\* different, more than one group, and errors that are not zero
C12_Witness ==
    /\ evaluated = Individuals
    /\ SameGrouping(offered["g1"], offered["g2"])
    /\ IntGenes(genomes["g1"]) # IntGenes(genomes["g2"])
    /\ Cardinality(evalCache) = 2
    /\ Len(scores["g1"].simErr) > 0
    /\ scores["g1"].genErr[1] > 0
    /\ scores["g1"] = scores["g2"]

(***************************************************************************)
(* One mining run: GA_RM.__init__, miningWithGAWith1DRealChromosome,       *)
(* process, then the policy derivation (SpecMining).  The search of the GA *)
(* is left open: its best individual is any chromosome of the gene range.  *)
(***************************************************************************)

\* The histories of one or two callers.
MiningMatrices == [{0} -> FuncSets] \cup [{0, 1} -> FuncSets]

\* self.U and self.permissions (roleminer.py 232-236)
NumOfUsers(P) == Cardinality(DOMAIN P)

\* the chromosomes of length n as the real initializator and mutator draw
\* them (every gene with a fractional part) and as eval_func leaves them
ChromosomesOf(n) ==
    UNION {[1..n -> {<<k, h>> : k \in 0..(n - 1)}] : h \in {0, 1}}

\* a decoding that takes the users of the first basic role of a group only
DecodeFirstChildOnly(chromosome, trainBasicRoles) ==
    LET finalroles == translateChromosome2Roles(chromosome, trainBasicRoles)
    IN  [g \in 1..Len(finalroles) |->
            [users |-> finalroles[g][1].users,
             funcs |-> GroupFuncs(finalroles[g])]]

\* roleminer.py 453-469: returnroles of print_eval_func
print_eval_func(chromosome, trainBasicRoles) ==
    LET finalroles == translateChromosome2Roles(chromosome, trainBasicRoles)
    IN  [g \in 1..Len(finalroles) |->
            [users |-> UNION {finalroles[g][m].users :
                                 m \in 1..Len(finalroles[g])},
             funcs |-> GroupFuncs(finalroles[g])]]

\* a run that builds no role for a single caller
NoRoleForSingleUser(P) == <<>>

\* the one role of a single caller (roleminer.py 317-320)
SingleUserRoles(P) == <<[users |-> {0}, funcs |-> ObservedFuncs(P)]>>

\* a return that keeps the address of the first user of a role only
processFirstUserOnly(rl, um) ==
    [g \in 1..Len(rl) |->
        [users |-> {um[SetMin(rl[g].users)]}, funcs |-> rl[g].funcs]]

\* roleminer.py 529-535: user ids replaced by the addresses of userMap
process(rl, um) ==
    [g \in 1..Len(rl) |->
        [users |-> {um[u] : u \in rl[g].users}, funcs |-> rl[g].funcs]]

\* roleminer.py 250-251
Construct ==
    /\ pcMining = "construct"
    /\ verybasic_usergroups' \in translateLattice2Role(permissionMatrix)
    /\ basicRoles' = ReduceMain(verybasic_usergroups')
    /\ pcMining' = "mine"
    /\ UNCHANGED <<permissionMatrix, roles, hierarchyMatrix, removes,
                   loopIndex, pcReduce>>
    /\ UNCHANGED <<userMap, bestindividual, gaRoles>>
    /\ UNCHANGED <<policyVars, canonVars, fitnessVars, historyVars, gaVars>>

\* roleminer.py 312-320 and 476-477: the two short cuts, then the assert on
\* the number of basic roles
Mine ==
    /\ pcMining = "mine"
    /\ IF NumOfUsers(permissionMatrix) < 1
       THEN gaRoles' = <<>> /\ pcMining' = "process"
       ELSE IF NumOfUsers(permissionMatrix) = 1
       THEN gaRoles' = SingleUserRoles(permissionMatrix)
            /\ pcMining' = "process"
       ELSE IF Len(basicRoles) > 1
       THEN gaRoles' = gaRoles /\ pcMining' = "evolve"
       ELSE gaRoles' = gaRoles /\ pcMining' = "error"
    /\ UNCHANGED <<userMap, bestindividual>>
    /\ UNCHANGED <<policyVars, reduceVars, canonVars, fitnessVars, historyVars, gaVars>>

\* roleminer.py 479-515: ga.evolve and ga.bestIndividual
Evolve ==
    /\ pcMining = "evolve"
    /\ bestindividual' \in ChromosomesOf(Len(basicRoles))
    /\ pcMining' = "decode"
    /\ UNCHANGED <<userMap, gaRoles>>
    /\ UNCHANGED <<policyVars, reduceVars, canonVars, fitnessVars, historyVars, gaVars>>

\* roleminer.py 518-527
Decode ==
    /\ pcMining = "decode"
    /\ gaRoles' = print_eval_func(bestindividual, basicRoles)
    /\ pcMining' = "process"
    /\ UNCHANGED <<userMap, bestindividual>>
    /\ UNCHANGED <<policyVars, reduceVars, canonVars, fitnessVars, historyVars, gaVars>>

\* roleminer.py 529-535, then roleminer.py 616-618 hands the roles to the
\* policy derivation
Process ==
    /\ pcMining = "process"
    /\ mined_roles' = process(gaRoles, userMap)
    /\ pcMining' = "done"
    /\ pcPolicy' = "start"
    /\ UNCHANGED <<reads, reads2, writes, dataW, newDataW, securityLattice,
                   emitted, securityPolicies>>
    /\ UNCHANGED <<userMap, bestindividual, gaRoles>>
    /\ UNCHANGED <<reduceVars, canonVars, fitnessVars, historyVars, gaVars>>

NextMining ==
    \/ Construct
    \/ Mine
    \/ Evolve
    \/ Decode
    \/ Process
    \/ ComputeRW
    \/ Deduplicate
    \/ BuildLattice
    \/ EmitPolicies

\* two summaries a function may have (staticAnalyzer.py 54-66)
MiningSummaries ==
    {[r |-> {}, r2 |-> {}, w |-> {"x"}],
     [r |-> {"x"}, r2 |-> {"x"}, w |-> {"x", "y"}]}

InitMining ==
    /\ permissionMatrix \in MiningMatrices
    /\ userMap = [u \in DOMAIN permissionMatrix |-> AddrName[u + 1]]
    /\ bestindividual = <<>>
    /\ gaRoles = <<>>
    /\ pcMining = "construct"
    /\ verybasic_usergroups = <<>>
    /\ roles = <<>>
    /\ hierarchyMatrix = <<>>
    /\ removes = <<>>
    /\ loopIndex = 0
    /\ basicRoles = <<>>
    /\ pcReduce = "idle"
    /\ mined_roles = <<>>
    /\ \E s \in [Funcs -> MiningSummaries] :
          /\ reads = [f \in Funcs |-> s[f].r]
          /\ reads2 = [f \in Funcs |-> s[f].r2]
          /\ writes = [f \in Funcs |-> s[f].w]
    /\ PolicyIdle
    /\ pcPolicy = "idle"
    /\ CanonIdle
    /\ FitnessIdle
    /\ HistoryIdle
    /\ GAIdle

SpecMining == InitMining /\ [][NextMining]_vars

(***************************************************************************)
(* Properties of the mining run.                                           *)
(***************************************************************************)

\* the GA ran and its best individual has been decoded and processed
DecodedAndProcessed == pcMining = "done" /\ bestindividual # <<>>

\* the gene values the decoding groups by: the whole parts of the genes
GeneValues == {ToInt(bestindividual[p]) : p \in DOMAIN bestindividual}

\* the basic-role indices with gene value v
IndicesWith(v) ==
    {p \in DOMAIN bestindividual : ToInt(bestindividual[p]) = v}

PastMine == pcMining \in {"evolve", "decode", "process", "done", "error"}

\* C14: when the reduction leaves exactly one basic role, for any number of
\* users, the optimizer raises no error and returns exactly one final role,
\* whose function set is the set of all observed functions.
C14_OneBasicRoleGivesOneFinalRole ==
    (PastMine /\ Len(basicRoles) = 1) =>
        /\ pcMining # "error"
        /\ Len(gaRoles) = 1
        /\ gaRoles[1].funcs = ObservedFuncs(permissionMatrix)

\* C15: with exactly one user in the history the GA is skipped, exactly one
\* final role is returned, holding that user's address and all observed
\* functions, and the policy derivation on it ends with no policy.
C15_SingleUserOneRoleNoPolicy ==
    NumOfUsers(permissionMatrix) = 1 =>
        /\ pcMining \notin {"evolve", "decode", "error"}
        /\ bestindividual = <<>>
        /\ pcMining = "done" =>
              mined_roles = <<[users |-> {userMap[0]},
                               funcs |-> ObservedFuncs(permissionMatrix)]>>
        /\ pcPolicy # "error"
        /\ securityPolicies = {}
        /\ pcPolicy = "done" => DOMAIN emitted = {}

\* a single user of several functions that write data, with the policy
\* derivation finished
C15_Witness ==
    /\ NumOfUsers(permissionMatrix) = 1
    /\ pcMining = "done"
    /\ pcPolicy = "done"
    /\ Len(mined_roles) = 1
    /\ Cardinality(mined_roles[1].funcs) > 1
    /\ dataW[1] # {}

(***************************************************************************)
(* HistoryLoader: the record loop and the matrices of                      *)
(* lightweightrolemining (SpecHistory).                                    *)
(***************************************************************************)

\* caller addresses as the crawler reports them, two of them differing in
\* letter case only
Callers == {"0xA", "0xa", "0xb"}

\* str.lower (roleminer.py 92)
Lower(a) == IF a = "0xA" THEN "0xa" ELSE a

\* the name of the called method after resolution (roleminer.py 114-115)
MethodNames == {"f1", "f2", "Contract Creation"}

\* the JSON values of the success field
SuccessValues == {"true", "false", "1", "0"}

Counts == {0, 1}

CallRecords ==
    [caller : Callers, function : MethodNames, count : Counts,
     success : SuccessValues]

\* a test that takes every value but JSON false as success
SucceededUnlessFalse(success) == success # "false"

\* success == 1 or success is True (roleminer.py 117)
Succeeded(success) == success = "1" \/ success = "true"

\* roleminer.py 117
Retained(rec) ==
    rec.function # "Contract Creation" /\ Succeeded(rec.success)

\* an id counter that does not lowercase
IdCounterCaseSensitive(hm, user) ==
    IF user \in DOMAIN hm THEN [map |-> hm, id |-> hm[user]]
    ELSE [map |-> [a \in DOMAIN hm \cup {user} |->
                      IF a = user THEN Cardinality(DOMAIN hm) ELSE hm[a]],
          id |-> Cardinality(DOMAIN hm)]

\* roleminer.py 91-98: _getId(user), the hashMap after the call and the id
\* returned; len(userMap) is the number of ids given so far
IdCounter(hm, user) ==
    IF Lower(user) \in DOMAIN hm THEN [map |-> hm, id |-> hm[Lower(user)]]
    ELSE [map |-> [a \in DOMAIN hm \cup {Lower(user)} |->
                      IF a = Lower(user) THEN Cardinality(DOMAIN hm)
                      ELSE hm[a]],
          id |-> Cardinality(DOMAIN hm)]

\* userMap is kept as the inverse of hashMap (roleminer.py 96-97)
UserMapOf(hm) ==
    [i \in {hm[a] : a \in DOMAIN hm} |-> CHOOSE a \in DOMAIN hm : hm[a] = i]

\* a loop that overwrites a cell instead of adding to it
RECURSIVE OverwrittenCount(_, _, _, _)
OverwrittenCount(triples, u, f, k) ==
    IF k = 0 THEN 0
    ELSE IF triples[k][1] = u /\ triples[k][2] = f THEN triples[k][3]
    ELSE OverwrittenCount(triples, u, f, k - 1)

\* roleminer.py 127-129: the cell (u, f) after the first k triples
RECURSIVE AccumulatedCount(_, _, _, _)
AccumulatedCount(triples, u, f, k) ==
    IF k = 0 THEN 0
    ELSE AccumulatedCount(triples, u, f, k - 1)
         + (IF triples[k][1] = u /\ triples[k][2] = f
            THEN triples[k][3] ELSE 0)

\* a conversion that takes a cell above one as a permission
AboveOne(x) == x > 1

\* astype(bool) of a cell (roleminer.py 131)
AsBool(x) == x # 0

\* roleminer.py 113-119: one iteration of the loop
ReadCall ==
    /\ pcLoad = "loop"
    /\ callIndex <= Len(usercall_statistics)
    /\ LET usercall == usercall_statistics[callIndex] IN
       IF Retained(usercall)
       THEN /\ functions' = functions \cup {usercall.function}
            /\ hashMap' = IdCounter(hashMap, usercall.caller).map
            /\ userMap' = UserMapOf(hashMap')
            /\ UF' = Append(UF, <<IdCounter(hashMap, usercall.caller).id,
                                  usercall.function, usercall.count>>)
       ELSE UNCHANGED <<functions, hashMap, userMap, UF>>
    /\ callIndex' = callIndex + 1
    /\ UNCHANGED <<usercall_statistics, pcLoad>>
    /\ UNCHANGED <<freqMatrix, permissionMatrix>>
    /\ UNCHANGED <<scores, bestindividual, gaRoles, pcMining>>
    /\ UNCHANGED <<verybasic_usergroups, roles, hierarchyMatrix, removes,
                   loopIndex, basicRoles, pcReduce>>
    /\ UNCHANGED <<policyVars, canonVars, gaVars>>

\* roleminer.py 121-131: the frequency matrix over the user ids and the
\* observed functions, and the permission matrix, a row being the set of
\* the functions of its true cells
BuildMatrices ==
    /\ pcLoad = "loop"
    /\ callIndex > Len(usercall_statistics)
    /\ freqMatrix' =
          [u \in DOMAIN userMap |->
              [f \in functions |-> AccumulatedCount(UF, u, f, Len(UF))]]
    /\ permissionMatrix' =
          [u \in DOMAIN userMap |->
              {f \in functions : AsBool(freqMatrix'[u][f])}]
    /\ pcLoad' = "loaded"
    /\ UNCHANGED <<usercall_statistics, callIndex, hashMap, functions, UF>>
    /\ UNCHANGED <<scores, userMap, bestindividual, gaRoles, pcMining>>
    /\ UNCHANGED <<verybasic_usergroups, roles, hierarchyMatrix, removes,
                   loopIndex, basicRoles, pcReduce>>
    /\ UNCHANGED <<policyVars, canonVars, gaVars>>

NextHistory == ReadCall \/ BuildMatrices

\* the record sequences of up to n records
RECURSIVE HistoriesUpTo(_)
HistoriesUpTo(n) ==
    IF n = 0 THEN {<<>>}
    ELSE HistoriesUpTo(n - 1) \cup [1..n -> CallRecords]

InitHistory ==
    /\ usercall_statistics \in HistoriesUpTo(MaxRecords)
    /\ callIndex = 1
    /\ hashMap = <<>>
    /\ userMap = <<>>
    /\ functions = {}
    /\ UF = <<>>
    /\ pcLoad = "loop"
    /\ freqMatrix = <<>>
    /\ scores = <<>>
    /\ bestindividual = <<>>
    /\ gaRoles = <<>>
    /\ pcMining = "idle"
    /\ mined_roles = <<>>
    /\ reads = None
    /\ reads2 = None
    /\ writes = None
    /\ PolicyIdle
    /\ pcPolicy = "idle"
    /\ ReduceIdle
    /\ CanonIdle
    /\ GAIdle

SpecHistory == InitHistory /\ [][NextHistory]_vars

(***************************************************************************)
(* Properties of the history loader.                                       *)
(***************************************************************************)

Loaded == pcLoad = "loaded"

\* the records read so far
RecordsRead == 1..(callIndex - 1)

\* a record whose success field is true or 1
IsSuccessful(rec) == rec.success \in {"true", "1"}

\* a record that is successful and not named "Contract Creation"
IsRetained(rec) == IsSuccessful(rec) /\ rec.function # "Contract Creation"

\* the successful records of caller u (an id) and function f
SuccessfulRecords(u, f) ==
    {k \in RecordsRead :
        /\ IsSuccessful(usercall_statistics[k])
        /\ Lower(usercall_statistics[k].caller) = userMap[u]
        /\ usercall_statistics[k].function = f}

\* C17 as stated: P[u,f] is true iff the history has a successful record of
\* caller u and function f, whatever the counts, 0 included.
C17_PermissionIffSuccessfulRecord ==
    Loaded =>
        \A u \in DOMAIN permissionMatrix : \A f \in functions :
            (f \in permissionMatrix[u]) <=> SuccessfulRecords(u, f) # {}

\* C17: P[u,f] is true iff the history has a successful record of caller u
\* and function f whose count is positive; a successful record with count 0
\* gives the caller an id and the function a column, but no permission.
C17_PermissionIffPositiveCount ==
    Loaded =>
        /\ \A u \in DOMAIN permissionMatrix : \A f \in functions :
              (f \in permissionMatrix[u]) <=>
                  \E k \in SuccessfulRecords(u, f) :
                      usercall_statistics[k].count > 0
        /\ \A k \in RecordsRead :
              IsRetained(usercall_statistics[k]) =>
                  /\ Lower(usercall_statistics[k].caller) \in DOMAIN hashMap
                  /\ usercall_statistics[k].function \in functions

\* a loaded history with a successful record of count 0 that gave no
\* permission and a successful record of positive count that gave one
C17_Witness ==
    /\ Loaded
    /\ \E u \in DOMAIN permissionMatrix : \E f \in functions :
          /\ SuccessfulRecords(u, f) # {}
          /\ f \notin permissionMatrix[u]
    /\ \E u \in DOMAIN permissionMatrix : permissionMatrix[u] # {}

\* the retained records of caller u (an id) and function f
RetainedRecords(u, f) ==
    {k \in RecordsRead :
        /\ IsRetained(usercall_statistics[k])
        /\ Lower(usercall_statistics[k].caller) = userMap[u]
        /\ usercall_statistics[k].function = f}

\* the count of each record
CountOf == [k \in DOMAIN usercall_statistics |-> usercall_statistics[k].count]

\* the lowercased callers and the functions of the retained records
RetainedCallers ==
    {Lower(usercall_statistics[k].caller) :
        k \in {i \in RecordsRead : IsRetained(usercall_statistics[i])}}

RetainedFunctions ==
    {usercall_statistics[k].function :
        k \in {i \in RecordsRead : IsRetained(usercall_statistics[i])}}

\* C18: F[u,f] is the sum of count over exactly the records that are
\* successful, not named "Contract Creation", of lowercased caller u and of
\* function f; a failed or Contract Creation record adds nothing to F or P:
\* no row, no column, no count and no permission.
C18_FrequencyIsSumOfRetainedCounts ==
    Loaded =>
        /\ {userMap[u] : u \in DOMAIN freqMatrix} = RetainedCallers
        /\ functions = RetainedFunctions
        /\ \A u \in DOMAIN freqMatrix :
              /\ DOMAIN freqMatrix[u] = functions
              /\ \A f \in functions :
                    /\ freqMatrix[u][f] = SumOver(CountOf, RetainedRecords(u, f))
                    /\ RetainedRecords(u, f) = {} =>
                          f \notin permissionMatrix[u]

\* a loaded history where one cell is the sum of the counts of two records
C18_Witness ==
    /\ Loaded
    /\ \E u \in DOMAIN freqMatrix : \E f \in functions :
          /\ Cardinality(RetainedRecords(u, f)) = 2
          /\ freqMatrix[u][f] = 2

\* C19: the permission matrix and the frequency matrix have the same rows
\* and columns, and P[u,f] = (F[u,f] > 0) for every user u and function f.
C19_PermissionIsPositiveFrequency ==
    Loaded =>
        /\ DOMAIN permissionMatrix = DOMAIN freqMatrix
        /\ \A u \in DOMAIN freqMatrix :
              /\ DOMAIN freqMatrix[u] = functions
              /\ permissionMatrix[u] \subseteq functions
              /\ \A f \in functions :
                    (f \in permissionMatrix[u]) <=> (freqMatrix[u][f] > 0)

\* loaded matrices with a true cell of frequency 1 and a false cell
C19_Witness ==
    /\ Loaded
    /\ \E u \in DOMAIN freqMatrix : \E f \in functions :
          freqMatrix[u][f] = 1 /\ f \in permissionMatrix[u]
    /\ \E u \in DOMAIN freqMatrix : \E f \in functions :
          freqMatrix[u][f] = 0 /\ f \notin permissionMatrix[u]

\* the index of the first retained record of the lowercased address a
FirstRetained(a) ==
    CHOOSE k \in RecordsRead :
        /\ IsRetained(usercall_statistics[k])
        /\ Lower(usercall_statistics[k].caller) = a
        /\ \A j \in 1..(k - 1) :
              ~(/\ IsRetained(usercall_statistics[j])
                /\ Lower(usercall_statistics[j].caller) = a)

\* C20: after any sequence of records, UserMap is a bijection between the
\* ids 0..k-1 and the k distinct lowercased addresses of the callers with a
\* retained record; the ids follow the order of first retained appearance,
\* and callers that differ only in letter case get the same id.
C20_UserMapIsDenseBijection ==
    LET k == Cardinality(RetainedCallers) IN
    /\ DOMAIN userMap = 0..(k - 1)
    /\ {userMap[i] : i \in DOMAIN userMap} = RetainedCallers
    /\ \A i, j \in DOMAIN userMap : userMap[i] = userMap[j] => i = j
    /\ \A i, j \in DOMAIN userMap :
          i < j <=> FirstRetained(userMap[i]) < FirstRetained(userMap[j])
    /\ Len(UF) = Cardinality({i \in RecordsRead :
                                 IsRetained(usercall_statistics[i])})
    /\ \A n \in RecordsRead :
          IsRetained(usercall_statistics[n]) =>
              LET pos == Cardinality({i \in 1..n :
                             IsRetained(usercall_statistics[i])}) IN
              /\ UF[pos][1] \in DOMAIN userMap
              /\ userMap[UF[pos][1]] = Lower(usercall_statistics[n].caller)

\* two retained records whose callers differ only in letter case got one id
C20_Witness ==
    /\ callIndex > 2
    /\ IsRetained(usercall_statistics[1])
    /\ IsRetained(usercall_statistics[2])
    /\ usercall_statistics[1].caller # usercall_statistics[2].caller
    /\ Len(UF) = 2
    /\ Lower(usercall_statistics[1].caller)
          = Lower(usercall_statistics[2].caller)
    /\ UF[1][1] = 0 /\ UF[2][1] = 0
    /\ DOMAIN userMap = {0}

(***************************************************************************)
(* The reducer against its declarative rule.                               *)
(***************************************************************************)

\* the declarative rule for one role: its function set minus the original
\* function sets of the roles whose user sets strictly contain its own
Distinguishing(rl, k) ==
    [users |-> rl[k].users,
     funcs |-> rl[k].funcs \ AncestorFuncs(rl, rl[k].users)]

\* the roles of rl from position k on, trimmed by the rule, the empty ones
\* dropped, in the order of rl
RECURSIVE DeclarativeFrom(_, _)
DeclarativeFrom(rl, k) ==
    IF k > Len(rl) THEN <<>>
    ELSE (IF Distinguishing(rl, k).funcs = {} THEN <<>>
          ELSE <<Distinguishing(rl, k)>>) \o DeclarativeFrom(rl, k + 1)

\* C25: for the concepts of any permission matrix, ReduceMain returns the
\* list of the declarative rule: each role keeps its original function set
\* minus the union of the original function sets of the roles whose user
\* sets strictly contain its own, a role is dropped exactly when that
\* difference is empty, and the surviving roles keep their input order.
C25_ReducerEqualsDeclarativeRule ==
    ReduceDone => basicRoles = DeclarativeFrom(verybasic_usergroups, 1)

\* a finished reduction where a role was trimmed against a parent that had
\* itself been trimmed before
C25_Witness ==
    /\ ReduceDone
    /\ \E i, j \in 1..Len(verybasic_usergroups) :
          /\ j < i
          /\ verybasic_usergroups[i].users \subseteq verybasic_usergroups[j].users
          /\ verybasic_usergroups[i].users # verybasic_usergroups[j].users
          /\ AncestorFuncs(verybasic_usergroups,
                           verybasic_usergroups[j].users) # {}
          /\ Distinguishing(verybasic_usergroups, i).funcs # {}
          /\ Distinguishing(verybasic_usergroups, j).funcs # {}

\* C27: the function sets of the basic roles returned by ReduceMain are
\* pairwise disjoint and their union is the set of the observed functions,
\* so every observed function belongs to exactly one basic role.
C27_BasicRolesPartitionFunctions ==
    ReduceDone =>
        /\ \A i, j \in 1..Len(basicRoles) :
              i # j => basicRoles[i].funcs \cap basicRoles[j].funcs = {}
        /\ UNION {basicRoles[k].funcs : k \in 1..Len(basicRoles)}
              = ObservedFuncs(permissionMatrix)

\* a finished reduction with three basic roles left after two removals
C27_Witness ==
    /\ ReduceDone
    /\ Len(basicRoles) >= 2
    /\ Cardinality(SeqRange(removes)) >= 2
    /\ ObservedFuncs(permissionMatrix) = Funcs

(***************************************************************************)
(* Each role is processed once.                                            *)
(***************************************************************************)

\* row i of the hierarchy matrix is zero
RowIsZero(H, i) == \A p \in DOMAIN H : p[1] = i => H[p] = 0

\* the number of positions of q that hold x
Occurrences(q, x) == Cardinality({k \in 1..Len(q) : q[k] = x})

\* the indices trimmed or marked during the visit of loopIndex
TrimmedNow ==
    dfsReduceRecursive([roles |-> roles, H |-> hierarchyMatrix,
                        removes |-> removes, trimmed |-> <<>>],
                       loopIndex).trimmed

\* role i has a parent in the hierarchy of the input list and its row is
\* zero: it has been processed
Processed(i) ==
    /\ hierarchyMatrix # <<>>
    /\ RowIsZero(hierarchyMatrix, i)
    /\ ~RowIsZero(buildRoleHierarchy(verybasic_usergroups), i)

\* one visit of the loop processes an index at most once and only if it was
\* not processed before, leaves its row zero, and leaves the function set
\* and the marks of the roles processed before as they were
ProcessedOnce ==
    (pcReduce = "dfs" /\ loopIndex <= Len(roles)) =>
        LET trimmedNow == TrimmedNow IN
        /\ \A i \in 1..Len(roles) :
              /\ Occurrences(trimmedNow, i) <= 1
              /\ Occurrences(trimmedNow, i) = 1 =>
                    /\ ~Processed(i)
                    /\ RowIsZero(hierarchyMatrix', i)
                    /\ Occurrences(removes', i) <= 1
              /\ Processed(i) =>
                    /\ roles'[i] = roles[i]
                    /\ Occurrences(removes', i) = Occurrences(removes, i)
                    /\ RowIsZero(hierarchyMatrix', i)

\* the number of steps ReduceMain still has to take: the hierarchy, one
\* visit per remaining index, and the pop
StepsLeft ==
    IF pcReduce = "build" THEN Len(verybasic_usergroups) + 2
    ELSE IF pcReduce = "dfs" THEN Len(verybasic_usergroups) + 2 - loopIndex
    ELSE 0

\* the guards of BuildHierarchy, DfsStep and PopRemoved
CanStep ==
    \/ pcReduce = "build"
    \/ pcReduce = "dfs" /\ loopIndex <= Len(roles)
    \/ pcReduce = "dfs" /\ loopIndex > Len(roles)

\* C26: for every role list with pairwise distinct user sets ReduceMain
\* terminates, and every role index is trimmed or marked for removal at most
\* once: once a role is processed its row of H is zero, and later visits
\* leave its function set and its marks in the removal list unchanged.
\* Termination is stated by its variant: a step is possible until the list
\* is returned, and every step lowers the number of steps left, which is
\* never below 0.
C26_TerminatesProcessingEachRoleOnce ==
    /\ [](~ReduceDone => CanStep)
    /\ [][StepsLeft' < StepsLeft]_vars
    /\ [][ProcessedOnce]_vars
    /\ [](\A i \in 1..Len(roles) : Occurrences(removes, i) <= 1)

\* a visit, after the loop has passed it, of a role that was trimmed earlier
\* through the recursion from one of its parents, next to a marked role
C26_Witness ==
    /\ pcReduce = "dfs"
    /\ loopIndex > 1
    /\ loopIndex <= Len(roles)
    /\ Processed(loopIndex)
    /\ roles[loopIndex] # verybasic_usergroups[loopIndex]
    /\ Len(removes) > 0

(***************************************************************************)
(* The closest final role of a basic role.                                 *)
(***************************************************************************)

\* the basic roles that the chromosome puts in the group of basic role b
GroupMates(chromosome, b) ==
    {c \in 1..Len(chromosome) :
        ToInt(chromosome[c]) = ToInt(chromosome[b])}

\* the final roles of an evaluated individual
FinalRolesOf(k) == translateChromosome2Roles(genomes[k], basicRoles)

\* C28: for every chromosome and every basic role b,
\* getClosestRoleInRoleSet returns the group that contains b, never None and
\* never another group, so the role predicted for b is (U_b, union of the
\* function sets of the basic roles of b's own group).
C28_ClosestRoleIsOwnGroup ==
    \A k \in evaluated : \A b \in 1..Len(basicRoles) :
        LET closestRole == getClosestRoleInRoleSet(basicRoles[b],
                                                   FinalRolesOf(k))
        IN  /\ closestRole \in 1..Len(FinalRolesOf(k))
            /\ {FinalRolesOf(k)[closestRole][m] :
                    m \in 1..Len(FinalRolesOf(k)[closestRole])}
                  = {basicRoles[c] : c \in GroupMates(genomes[k], b)}
            /\ PredictedRole(basicRoles[b], FinalRolesOf(k))
                  = [users |-> basicRoles[b].users,
                     funcs |-> UNION {basicRoles[c].funcs :
                                         c \in GroupMates(genomes[k], b)}]

\* an evaluated individual with two groups, where a basic role is the second
\* of a group that is not the first group
C28_Witness ==
    \E k \in evaluated : \E b \in 1..Len(basicRoles) :
        /\ Len(FinalRolesOf(k)) = 2
        /\ getClosestRoleInRoleSet(basicRoles[b], FinalRolesOf(k)) = 2
        /\ Len(FinalRolesOf(k)[2]) = 2
        /\ FinalRolesOf(k)[2][2] = basicRoles[b]

(***************************************************************************)
(* The final roles cover the permission matrix.                            *)
(***************************************************************************)

\* C29: for every history with at least two users and at least two basic
\* roles, and every chromosome the GA may return, whenever P[u,f] is true
\* some final role has u's address among its users and f among its
\* functions.
C29_FinalRolesCoverPermissions ==
    (/\ pcMining = "done"
     /\ NumOfUsers(permissionMatrix) >= 2
     /\ Len(basicRoles) >= 2) =>
        \A u \in DOMAIN permissionMatrix : \A f \in permissionMatrix[u] :
            \E g \in 1..Len(mined_roles) :
                /\ userMap[u] \in mined_roles[g].users
                /\ f \in mined_roles[g].funcs

\* a finished run of two users and several final roles in which a user holds
\* a function that one final role does not give it
C29_Witness ==
    /\ pcMining = "done"
    /\ NumOfUsers(permissionMatrix) >= 2
    /\ Len(basicRoles) >= 2
    /\ Len(mined_roles) >= 2
    /\ \E u \in DOMAIN permissionMatrix : \E f \in permissionMatrix[u] :
          \E g \in 1..Len(mined_roles) :
              /\ userMap[u] \in mined_roles[g].users
              /\ f \notin mined_roles[g].funcs

(***************************************************************************)
(* The deduplication against an in-place pass.                             *)
(***************************************************************************)

\* a left-to-right pass from position i on that updates W in place, so that
\* the sets to the left of i are read deduplicated
RECURSIVE InPlacePass(_, _)
InPlacePass(W, i) ==
    IF i > Len(W) THEN W
    ELSE InPlacePass(
             [W EXCEPT ![i] = W[i] \ (ChainSeq(SubSeq(W, 1, i - 1))
                                         \ ChainSeq(SubSeq(W, i + 1, Len(W))))],
             i + 1)

\* C30: the deduplication computed from the snapshot of the write sets gives
\* the same write sets as a left-to-right pass that updates them in place.
C30_SnapshotEqualsInPlacePass ==
    DedupDone => newDataW = InPlacePass(dataW, 1)

\* a deduplication that changed a set and, to its right, changed another
\* set that shares data with the first
C30_Witness ==
    /\ DedupDone
    /\ \E i, j \in 1..Len(dataW) :
          /\ j < i
          /\ newDataW[j] # dataW[j]
          /\ newDataW[i] # dataW[i]
          /\ dataW[i] \cap dataW[j] # {}
          /\ (dataW[j] \ newDataW[j]) \cap dataW[i] = {}

(***************************************************************************)
(* The GA run: ga.setGenerations, ga.setMultiProcessing, ga.evolve         *)
(* (SpecGA).  The optimizer itself is the pyevolve package, which is not   *)
(* part of the sources; its states Init, Evaluating, Evolving and Done and *)
(* their transitions are those of the specification.  What a worker does   *)
(* with a chromosome is eval_func.                                         *)
(***************************************************************************)

\* the worker processes of the pool (roleminer.py 512)
Workers == {"w1", "w2"}

\* a number of generations that is one more than the configured one
setGenerationsOneMore(g) == g + 1

\* roleminer.py 510: the number of generations the optimizer is given
setGenerations(g) == g

\* a cache that answers with an entry it holds, whatever the key
lruCacheAnyEntry(cache, key, computed) ==
    IF DOMAIN cache # {}
    THEN [value |-> cache[CHOOSE t \in DOMAIN cache : TRUE], cache |-> cache]
    ELSE [value |-> computed,
          cache |-> [t \in {key} |-> computed]]

\* roleminer.py 431: functools.lru_cache(maxsize=None) around
\* cached_eval_func, the value returned for key and the cache afterwards
lru_cache(cache, key, computed) ==
    IF key \in DOMAIN cache
    THEN [value |-> cache[key], cache |-> cache]
    ELSE [value |-> computed,
          cache |-> [t \in DOMAIN cache \cup {key} |->
                        IF t = key THEN computed ELSE cache[t]]]

\* roleminer.py 442-451 in a process whose cache is cache: the chromosome is
\* made canonical and cached_eval_func is called with its tuple
eval_func(cache, chromosome) ==
    lru_cache(cache, IntGenes(Canonicalize(chromosome)),
              cached_eval_func(permissionMatrix, freqMatrix, basicRoles,
                               Canonicalize(chromosome)))

\* the populations of the run: one chromosome of real or of whole genes for
\* each individual
Populations == [Individuals -> ChromosomesOf(Len(basicRoles))]

\* roleminer.py 514, ga.evolve: the first population is drawn
StartGA ==
    /\ gaState = "Init"
    /\ genomes' \in Populations
    /\ gaState' = "Evaluating"
    /\ UNCHANGED <<generation, currentGeneration, workerCache>>
    /\ UNCHANGED <<offered, evaluated, evalCache, scores, freqMatrix>>
    /\ UNCHANGED <<policyVars, reduceVars, miningVars, historyVars>>

\* worker w evaluates individual k: eval_func on the worker's copy of the
\* chromosome (full_copy=False, roleminer.py 512), the score goes back
Evaluate(k, w) ==
    /\ gaState = "Evaluating"
    /\ k \notin evaluated
    /\ LET result == eval_func(workerCache[w], genomes[k]) IN
       /\ scores' = [scores EXCEPT ![k] = result.value]
       /\ workerCache' = [workerCache EXCEPT ![w] = result.cache]
    /\ evaluated' = evaluated \cup {k}
    /\ UNCHANGED <<generation, gaState, currentGeneration>>
    /\ UNCHANGED <<offered, genomes, evalCache, freqMatrix>>
    /\ UNCHANGED <<policyVars, reduceVars, miningVars, historyVars>>

\* the whole population is evaluated and generations are left
Select ==
    /\ gaState = "Evaluating"
    /\ evaluated = Individuals
    /\ currentGeneration # setGenerations(generation)
    /\ gaState' = "Evolving"
    /\ UNCHANGED <<generation, currentGeneration, workerCache>>
    /\ UNCHANGED <<canonVars, fitnessVars>>
    /\ UNCHANGED <<policyVars, reduceVars, miningVars, historyVars>>

\* selection, crossover and mutation give the next population
Breed ==
    /\ gaState = "Evolving"
    /\ genomes' \in Populations
    /\ evaluated' = {}
    /\ scores' = [k \in Individuals |-> <<>>]
    /\ currentGeneration' = currentGeneration + 1
    /\ gaState' = "Evaluating"
    /\ UNCHANGED <<generation, workerCache>>
    /\ UNCHANGED <<offered, evalCache, freqMatrix>>
    /\ UNCHANGED <<policyVars, reduceVars, miningVars, historyVars>>

\* the last generation is evaluated; roleminer.py 515, ga.bestIndividual()
Finish ==
    /\ gaState = "Evaluating"
    /\ evaluated = Individuals
    /\ currentGeneration = setGenerations(generation)
    /\ gaState' = "Done"
    /\ bestindividual' \in {genomes[k] : k \in Individuals}
    /\ UNCHANGED <<generation, currentGeneration, workerCache>>
    /\ UNCHANGED <<canonVars, fitnessVars>>
    /\ UNCHANGED <<userMap, gaRoles, pcMining>>
    /\ UNCHANGED <<policyVars, reduceVars, historyVars>>

NextGA ==
    \/ StartGA
    \/ \E k \in Individuals : \E w \in Workers : Evaluate(k, w)
    \/ Select
    \/ Breed
    \/ Finish

\* the histories of two callers that give two basic roles
GAMatrices ==
    {P \in FitnessMatrices :
        /\ P[0] = {"f1", "f2"}
        /\ P[1] = {"f1"}
        /\ \A b \in BasicRolesOf(P) : Len(b) = 2}

\* roleminer.py 476-512: the run is set up for self.generation generations
InitGA ==
    /\ permissionMatrix \in GAMatrices
    /\ basicRoles \in BasicRolesOf(permissionMatrix)
    /\ freqMatrix = CountsOf(permissionMatrix, 0)
    /\ generation \in 1..MaxGenerations
    /\ gaState = "Init"
    /\ currentGeneration = 0
    /\ workerCache = [w \in Workers |-> <<>>]
    /\ offered = <<>>
    /\ genomes = <<>>
    /\ evaluated = {}
    /\ evalCache = {}
    /\ scores = [k \in Individuals |-> <<>>]
    /\ verybasic_usergroups = <<>>
    /\ roles = <<>>
    /\ hierarchyMatrix = <<>>
    /\ removes = <<>>
    /\ loopIndex = 0
    /\ pcReduce = "done"
    /\ mined_roles = <<>>
    /\ reads = None
    /\ reads2 = None
    /\ writes = None
    /\ PolicyIdle
    /\ pcPolicy = "idle"
    /\ MiningIdle
    /\ HistoryIdle

\* ga.evolve runs to its end: a step that can be taken is taken
SpecGA == InitGA /\ [][NextGA]_vars /\ WF_vars(NextGA)

(***************************************************************************)
(* The GA run: its states and its end                                      *)
(***************************************************************************)

\* the moves between the states of a run that is not cancelled
GAMoves ==
    {<<"Init", "Evaluating">>, <<"Evaluating", "Evolving">>,
     <<"Evolving", "Evaluating">>, <<"Evaluating", "Done">>}

\* the steps a run has left at most: the generations left, each with its
\* evaluations, its move to Evolving and its breeding
GAStepsLeft ==
    LET perGeneration == Cardinality(Individuals) + 2
        left == (generation - currentGeneration) * perGeneration
    IN  CASE gaState = "Init" -> left + perGeneration + 1
          [] gaState = "Evaluating" ->
                 left + Cardinality(Individuals \ evaluated) + 2
          [] gaState = "Evolving" -> left + 1
          [] OTHER -> 0

\* the guards of StartGA, Evaluate, Select, Finish and Breed
GACanStep ==
    \/ gaState = "Init"
    \/ gaState = "Evaluating" /\ evaluated # Individuals
    \/ gaState = "Evaluating" /\ evaluated = Individuals
           /\ currentGeneration # setGenerations(generation)
    \/ gaState = "Evaluating" /\ evaluated = Individuals
           /\ currentGeneration = setGenerations(generation)
    \/ gaState = "Evolving"

\* C22: a GA run that is not cancelled alternates between Evaluating and
\* Evolving, moves to Evolving only after the whole population has been
\* evaluated, and reaches Done exactly when the generation counter equals
\* the configured number of generations; it never stops earlier and it
\* always terminates (each step lowers the number of steps left, which is
\* never negative, and a run that is not Done can take a step).
C22_RunsTheConfiguredGenerations ==
    /\ [][gaState' # gaState => <<gaState, gaState'>> \in GAMoves]_vars
    /\ [][gaState' = "Evolving" /\ gaState # "Evolving" =>
              evaluated = Individuals /\ currentGeneration < generation]_vars
    /\ [][gaState' = "Done" /\ gaState # "Done" =>
              evaluated = Individuals /\ currentGeneration = generation]_vars
    /\ [](gaState = "Done" => currentGeneration = generation)
    /\ [](gaState # "Done" => GACanStep)
    /\ [](GAStepsLeft >= 0)
    /\ [][GAStepsLeft' < GAStepsLeft]_vars

\* a run of more than one generation has reached Done
C22_Witness ==
    /\ gaState = "Done"
    /\ generation > 1
    /\ currentGeneration = generation
    /\ bestindividual \in {genomes[k] : k \in Individuals}

(***************************************************************************)
(* The scores of a generation evaluated by the pool                        *)
(***************************************************************************)

\* the scores of a population evaluated in one process, one chromosome
\* after the other, starting from an empty cache
SequentialScores(population) ==
    LET first == eval_func(<<>>, population["g1"])
        second == eval_func(first.cache, population["g2"])
    IN  [k \in Individuals |->
            IF k = "g1" THEN first.value ELSE second.value]

\* C24: when the fitness of a generation is computed by parallel workers,
\* the score of each chromosome is the same for every interleaving and
\* every assignment of chromosomes to workers, and equals the score of a
\* sequential evaluation.
C24_ParallelScoresAreSequentialScores ==
    \A k \in evaluated :
        gaState \in {"Evaluating", "Evolving", "Done"} =>
            scores[k] = SequentialScores(genomes)[k]

\* a later generation in which both workers scored a chromosome, the two
\* scores differ and one worker holds more than one cached score
C24_Witness ==
    /\ gaState = "Evaluating"
    /\ currentGeneration > 0
    /\ evaluated = Individuals
    /\ scores["g1"] # scores["g2"]
    /\ \A w \in Workers : DOMAIN workerCache[w] # {}
    /\ \E w \in Workers : Cardinality(DOMAIN workerCache[w]) > 1

====
